---- MODULE Spec2Model ----
(***************************************************************************)
(* Model of the core of the wasmi register-machine engine:                 *)
(*   - the executor entry point (wasmi_v1 engine/inner/execute/mod.rs),    *)
(*   - the copy-span overlap rule of the instruction encoder,              *)
(*   - the control-flow part of the Wasm-to-register translator            *)
(*     (crates/wasmi engine/regmach/translator/visit.rs),                  *)
(*   - the operand folds of the translator's float comparisons, integer    *)
(*     divisions and bulk operations (same file).                          *)
(***************************************************************************)
EXTENDS Integers, Sequences, FiniteSets, TLC

(***************************************************************************)
(* Bounds of the model.                                                    *)
(***************************************************************************)
\* Largest number of callee frames pushed during one execute_func call.
MaxCalls == 3
\* Largest head register of a copied span.
MaxHead == 4
\* Largest length of a copied span.
MaxLen == 5
\* Largest number of Wasm operators of a translated function body.
MaxOps == 4
\* Largest number of control frames open inside the function body.
MaxDepth == 2
MaxFinite == 1
IntBits == 3

(***************************************************************************)
(* PART 1.  The executor: EngineInner::execute_func and its helpers.       *)
(***************************************************************************)
VARIABLES
    ex_pc,            \* position inside execute_func
    func,             \* the Func handle given to execute_func
    results,          \* len_results() of the results buffer given by the caller
    frames,           \* self.stack: the frame stack, root first
    frame,            \* the StackFrameRef execute_frame currently runs
    returned,         \* length of the ExecProviderSlice execute_frame returned
    outcome,          \* how execute_func ended
    n_push,           \* history: number of frames pushed (root included)
    n_pop,            \* history: number of frames popped
    signalled,        \* history: the trap a frame signalled
    trap_frames,      \* history: frame stack and push/pop counts at the trap
    host_called,      \* history: a Wasm frame called a host function
    rr_ran            \* history: return_result has run

exec_vars == <<ex_pc, func, results, frames, frame, returned, outcome,
               n_push, n_pop, signalled, trap_frames, host_called, rr_ran>>

VARIABLES
    cp_pc,            \* "start", "exec" (copy instructions pending), "done"
    cp_dst,           \* head register of the destination span (results)
    cp_src,           \* head register of the source span (values)
    cp_len,           \* length of both spans
    cp_overlap,       \* what has_overlapping_copy_spans answered
    cp_instrs,        \* the copy instructions emitted, not yet executed
    regs,             \* the register array the instructions act on
    regs_before       \* history: the register array before the copy

copy_vars == <<cp_pc, cp_dst, cp_src, cp_len, cp_overlap, cp_instrs, regs,
               regs_before>>

VARIABLES
    reachable,        \* FuncTranslator::reachable
    stack,            \* alloc.stack: the providers of the value stack
    control_stack,    \* alloc.control_stack: the control frames, root first
    else_providers,   \* alloc.control_stack: the side stack of else providers
    instrs,           \* alloc.instr_encoder: the instructions emitted
    labels,           \* alloc.instr_encoder: label -> pinned position, 0 = unpinned
    fuel_metering,    \* the engine's configuration: is fuel metering enabled
    panicked,         \* a handler panicked
    v_frames,         \* the validator's control frames for the operators read
    v_height,         \* the validator's operand stack height
    tr_pc,            \* "translating"; "finished" after the end of the body
    last_op,          \* history: the operator translated last
    was_reachable,    \* history: reachable when last_op was read
    n_ops,            \* history: number of operators translated
    prev              \* history: the translator when last_op was read

trans_vars == <<reachable, stack, control_stack, else_providers, instrs,
                labels, fuel_metering, panicked, v_frames, v_height, tr_pc,
                last_op, was_reachable, n_ops, prev>>

\* One handler of the translator applied to operands given as providers.
VARIABLES
    fd_op,            \* the operator translated, <<type, name>>
    fd_in,            \* the providers the handler popped, first operand first
    fd_out,           \* what the handler did: folded, emitted, or trapped
    fd_ctors          \* the constructors the handler handed to its helper

fold_vars == <<fd_op, fd_in, fd_out, fd_ctors>>

\* The variables a step of one part of the model leaves alone.
not_exec_vars == <<copy_vars, trans_vars, fold_vars>>
not_copy_vars == <<exec_vars, trans_vars, fold_vars>>
not_trans_vars == <<exec_vars, copy_vars, fold_vars>>
not_fold_vars == <<exec_vars, copy_vars, trans_vars>>

\* The functions of the store: two Wasm functions and one host function.
Funcs == {"wasm0", "wasm1", "host0"}

\* func.as_internal(&ctx): the kind of the function entity.
as_internal(f) == IF f = "host0" THEN "Host" ELSE "Wasm"

\* The number of results in the signature of a function.
len_result_types(f) == IF f = "wasm1" THEN 1 ELSE 0

\* Lengths a caller may give to the results buffer.
ResultLens == {0, 1}

\* The trap codes a frame may signal.
TrapCodes == {"UnreachableCodeReached", "DivisionByZero", "OutOfFuel"}

NoOutcome == [kind |-> "None", trap |-> "none"]
Ok == [kind |-> "Ok", trap |-> "none"]
Err(t) == [kind |-> "Err", trap |-> t]
Panic == [kind |-> "Panic", trap |-> "none"]

\* self.stack.init(func, params): the stack holds the root frame alone.
stack_init(f) == <<f>>

\* self.stack.push_frame(wasm_func, results, params, res): the callee frame
\* is put on top of the stack and becomes the current frame.
stack_push_frame(fs, callee) == Append(fs, callee)

\* self.stack.pop_frame(returned, res): removes the top frame; the frame
\* below it, if any, is the next frame to run (0 stands for None).
stack_pop_frame(fs) == SubSeq(fs, 1, Len(fs) - 1)

\* execute_host_func: its body ends in todo!(), so every call panics.
execute_host_func(host_func) == Panic

\* The first assertion of return_result: the number of returned values is
\* the length of the results buffer; the second: that length is the number
\* of result types of the signature.
return_result_asserts(f, returned_len, results_len) ==
    /\ returned_len = results_len
    /\ results_len = len_result_types(f)

ExecInit ==
    /\ ex_pc = "start"
    /\ func = "none"
    /\ results = 0
    /\ frames = << >>
    /\ frame = 0
    /\ returned = 0
    /\ outcome = NoOutcome
    /\ n_push = 0
    /\ n_pop = 0
    /\ signalled = "none"
    /\ trap_frames = << >>
    /\ host_called = FALSE
    /\ rr_ran = FALSE

\* execute_func, Wasm arm up to the call of execute_frame: initialize_args
\* builds the root frame.
execute_func_wasm(f, len) ==
    /\ ex_pc = "start"
    /\ as_internal(f) = "Wasm"
    /\ func' = f
    /\ results' = len
    /\ frames' = stack_init(f)
    /\ frame' = 1
    /\ n_push' = n_push + 1
    /\ ex_pc' = "execute_frame"
    /\ UNCHANGED <<returned, outcome, n_pop, signalled, trap_frames,
                   host_called, rr_ran>>
    /\ UNCHANGED not_exec_vars

\* execute_func, Host arm: todo!().
execute_func_host(f, len) ==
    /\ ex_pc = "start"
    /\ as_internal(f) = "Host"
    /\ func' = f
    /\ results' = len
    /\ outcome' = Panic
    /\ ex_pc' = "done"
    /\ UNCHANGED <<frames, frame, returned, n_push, n_pop, signalled,
                   trap_frames, host_called, rr_ran>>
    /\ UNCHANGED not_exec_vars

\* A mutation of execute_frame_trap: the trap only unwinds the frame that
\* signalled it and the caller, if there is one, is resumed.
execute_frame_trap_resumes(t) ==
    /\ ex_pc = "execute_frame"
    /\ signalled' = t
    /\ trap_frames' = <<frames, n_push, n_pop>>
    /\ IF Len(frames) > 1
          THEN /\ frames' = stack_pop_frame(frames)
               /\ frame' = Len(frames) - 1
               /\ n_pop' = n_pop + 1
               /\ UNCHANGED <<outcome, ex_pc>>
          ELSE /\ outcome' = Err(t)
               /\ ex_pc' = "done"
               /\ UNCHANGED <<frames, frame, n_pop>>
    /\ UNCHANGED <<func, results, returned, n_push, host_called, rr_ran>>
    /\ UNCHANGED not_exec_vars

\* One iteration of the loop of execute_frame in which the instruction
\* executor signals a trap: the ? operator returns Err at once, and the ?
\* in execute_func hands it on.
execute_frame_trap(t) ==
    /\ ex_pc = "execute_frame"
    /\ signalled' = t
    /\ trap_frames' = <<frames, n_push, n_pop>>
    /\ outcome' = Err(t)
    /\ ex_pc' = "done"
    /\ UNCHANGED <<func, results, frames, frame, returned, n_push, n_pop,
                   host_called, rr_ran>>
    /\ UNCHANGED not_exec_vars

\* A mutation of execute_frame_return: Ok(returned) is produced for the
\* first frame that returns, whether or not callers remain on the stack.
execute_frame_return_first ==
    /\ ex_pc = "execute_frame"
    /\ returned' = len_result_types(frames[frame])
    /\ ex_pc' = "return_result"
    /\ UNCHANGED <<func, results, frames, frame, outcome, n_push, n_pop,
                   signalled, trap_frames, host_called, rr_ran>>
    /\ UNCHANGED not_exec_vars

\* One iteration with CallOutcome::Return: the frame is popped; the caller
\* runs next, or Ok(returned) when the popped frame was the root.
execute_frame_return ==
    /\ ex_pc = "execute_frame"
    /\ LET popped == stack_pop_frame(frames)
       IN  /\ frames' = popped
           /\ n_pop' = n_pop + 1
           /\ returned' = len_result_types(frames[frame])
           /\ IF Len(popped) > 0
                 THEN /\ frame' = Len(popped)
                      /\ ex_pc' = "execute_frame"
                 ELSE /\ frame' = 0
                      /\ ex_pc' = "return_result"
    /\ UNCHANGED <<func, results, outcome, n_push, signalled, trap_frames,
                   host_called, rr_ran>>
    /\ UNCHANGED not_exec_vars

\* One iteration with CallOutcome::Call of a Wasm function: push_frame.
execute_frame_call_wasm(callee) ==
    /\ ex_pc = "execute_frame"
    /\ as_internal(callee) = "Wasm"
    /\ n_push < MaxCalls + 1
    /\ frames' = stack_push_frame(frames, callee)
    /\ frame' = Len(frames) + 1
    /\ n_push' = n_push + 1
    /\ UNCHANGED <<ex_pc, func, results, returned, outcome, n_pop, signalled,
                   trap_frames, host_called, rr_ran>>
    /\ UNCHANGED not_exec_vars

\* One iteration with CallOutcome::Call of a host function:
\* execute_host_func runs in the caller's iteration.
execute_frame_call_host(callee) ==
    /\ ex_pc = "execute_frame"
    /\ as_internal(callee) = "Host"
    /\ host_called' = TRUE
    /\ LET r == execute_host_func(callee)
       IN  IF r.kind = "Ok"
              THEN UNCHANGED <<ex_pc, outcome>>
              ELSE /\ outcome' = r
                   /\ ex_pc' = "done"
    /\ UNCHANGED <<func, results, frames, frame, returned, n_push, n_pop,
                   signalled, trap_frames, rr_ran>>
    /\ UNCHANGED not_exec_vars

\* return_result, then Ok(results) of execute_func.
return_result ==
    /\ ex_pc = "return_result"
    /\ rr_ran' = TRUE
    /\ outcome' = IF return_result_asserts(func, returned, results)
                     THEN Ok ELSE Panic
    /\ ex_pc' = "done"
    /\ UNCHANGED <<func, results, frames, frame, returned, n_push, n_pop,
                   signalled, trap_frames, host_called>>
    /\ UNCHANGED not_exec_vars

ExecNext ==
    \/ \E f \in Funcs, len \in ResultLens : execute_func_wasm(f, len)
    \/ \E f \in Funcs, len \in ResultLens : execute_func_host(f, len)
    \/ \E t \in TrapCodes : execute_frame_trap(t)
    \/ execute_frame_return
    \/ \E callee \in Funcs : execute_frame_call_wasm(callee)
    \/ \E callee \in Funcs : execute_frame_call_host(callee)
    \/ return_result

(***************************************************************************)
(* PART 2.  Copying a register span to a register span.                    *)
(***************************************************************************)
Registers == 0 .. (MaxHead + MaxLen)

\* RegSpan::new(head).iter_u16(len): the registers head, head+1, ...
iter_u16(head, len) == [head |-> head, len |-> len]

\* RegSpanIter::has_overlapping_copies(results, values): whether copying
\* values to results front to back overwrites a value before it is read.
has_overlapping_copies(res, values) ==
    IF res.len <= 1 THEN FALSE
    ELSE IF values.head >= res.head THEN FALSE
    ELSE LET last_value == values.head + values.len - 1
         IN  last_value >= res.head

\* The mutations of has_overlapping_copy_spans used to test the claims.
has_overlapping_copy_spans_swapped(res, values, len) ==
    has_overlapping_copies(iter_u16(values, len), iter_u16(res, len))

has_overlapping_copy_spans_short(res, values, len) ==
    has_overlapping_copies(iter_u16(res, len - 1), iter_u16(values, len - 1))

\* fn has_overlapping_copy_spans(results, values, len) of the test module.
has_overlapping_copy_spans(res, values, len) ==
    has_overlapping_copies(iter_u16(res, len), iter_u16(values, len))

\* The assertions of the test has_overlapping_copy_spans_works.
has_overlapping_copy_spans_works ==
    /\ ~has_overlapping_copy_spans(0, 0, 0)
    /\ ~has_overlapping_copy_spans(0, 1, 0)
    /\ ~has_overlapping_copy_spans(1, 0, 0)
    /\ ~has_overlapping_copy_spans(0, 0, 1)
    /\ ~has_overlapping_copy_spans(0, 1, 1)
    /\ ~has_overlapping_copy_spans(1, 0, 1)
    /\ ~has_overlapping_copy_spans(1, 1, 1)
    /\ ~has_overlapping_copy_spans(0, 0, 2)
    /\ ~has_overlapping_copy_spans(0, 1, 2)
    /\ has_overlapping_copy_spans(1, 0, 2)
    /\ ~has_overlapping_copy_spans(1, 1, 2)
    /\ ~has_overlapping_copy_spans(0, 0, 3)
    /\ ~has_overlapping_copy_spans(0, 1, 3)
    /\ has_overlapping_copy_spans(1, 0, 3)
    /\ ~has_overlapping_copy_spans(1, 1, 3)
    /\ has_overlapping_copy_spans(1, 0, 3)
    /\ has_overlapping_copy_spans(2, 0, 3)
    /\ ~has_overlapping_copy_spans(3, 0, 3)
    /\ ~has_overlapping_copy_spans(4, 0, 3)
    /\ ~has_overlapping_copy_spans(4, 0, 4)
    /\ has_overlapping_copy_spans(4, 1, 4)
    /\ has_overlapping_copy_spans(4, 0, 5)

\* The register-to-register copies of a span copy, front to back.
forward_copies(dst, src, len) ==
    [i \in 1 .. len |-> [result |-> dst + i - 1, value |-> src + i - 1]]

\* The same copies, back to front.
reverse_copies(dst, src, len) ==
    [i \in 1 .. len |-> [result |-> dst + len - i, value |-> src + len - i]]

\* encode_copies for a span of register values: nothing when the spans are
\* the same, a reverse-order copy when the destination lies within the
\* source range, a forward copy otherwise.
encode_copies_span(dst, src, len) ==
    IF dst = src THEN << >>
    ELSE IF has_overlapping_copy_spans(dst, src, len)
         THEN reverse_copies(dst, src, len)
         ELSE forward_copies(dst, src, len)

\* The executor's effect of one register copy.
exec_copy(rs, instr) == [rs EXCEPT ![instr.result] = rs[instr.value]]

CopyInit ==
    /\ cp_pc = "start"
    /\ cp_dst = 0
    /\ cp_src = 0
    /\ cp_len = 0
    /\ cp_overlap = FALSE
    /\ cp_instrs = << >>
    /\ regs = [r \in Registers |-> r]
    /\ regs_before = [r \in Registers |-> r]

\* The translator encodes the copy of [src, src+len) to [dst, dst+len).
EncodeCopies(dst, src, len) ==
    /\ cp_pc = "start"
    /\ cp_dst' = dst
    /\ cp_src' = src
    /\ cp_len' = len
    /\ cp_overlap' = has_overlapping_copy_spans(dst, src, len)
    /\ cp_instrs' = encode_copies_span(dst, src, len)
    /\ cp_pc' = IF encode_copies_span(dst, src, len) = << >>
                   THEN "done" ELSE "exec"
    /\ UNCHANGED <<regs, regs_before>>
    /\ UNCHANGED not_copy_vars

\* The executor runs the next emitted copy.
ExecCopy ==
    /\ cp_pc = "exec"
    /\ regs' = exec_copy(regs, Head(cp_instrs))
    /\ cp_instrs' = Tail(cp_instrs)
    /\ cp_pc' = IF Tail(cp_instrs) = << >> THEN "done" ELSE "exec"
    /\ UNCHANGED <<cp_dst, cp_src, cp_len, cp_overlap, regs_before>>
    /\ UNCHANGED not_copy_vars

CopyNext ==
    \/ \E dst \in 0 .. MaxHead, src \in 0 .. MaxHead, len \in 0 .. MaxLen :
          EncodeCopies(dst, src, len)
    \/ ExecCopy

(***************************************************************************)
(* PART 3.  The translator: one handler per Wasm operator.                 *)
(***************************************************************************)

\* The local registers of the translated function (its one parameter).
Locals == {0}
NumLocals == Cardinality(Locals)

\* The signature of the translated function.
func_type == [params |-> 1, results |-> 1]

\* The functions of the module that can be called, with their signatures:
\* function 0 is compiled in the module, function 1 is imported.
Callees == {0, 1}
func_type_of(f) == IF f = 0 THEN [params |-> 0, results |-> 2]
                            ELSE [params |-> 1, results |-> 1]
get_compiled_func_2(f) == f = 0

\* The signatures call_indirect may name.
SignatureIdxs == {0}
func_type_at(ty) == [params |-> 1, results |-> 1]

\* Block types: (params, results).
BlockTypes == {<<0, 0>>, <<0, 1>>, <<1, 1>>}

\* Values of i32.const.
ConstVals == {-1, 0, 2}

\* TypedProvider: a register or a constant.
Register(r) == [tag |-> "Register", n |-> r]
Const(v) == [tag |-> "Const", n |-> v]
NoProvider == [tag |-> "None", n |-> 0]

\* A register of the preservation space, which starts at i16::MAX.
preserved_register(local_index) == 32767 - local_index
is_dynamic(p) ==
    p.tag = "Register" /\ p.n >= NumLocals /\ p.n < 32767 - NumLocals

\* Instructions: op, result register, value provider, label, count.
Instr(op, res, value, label, n) ==
    [op |-> op, result |-> res, value |-> value, label |-> label, n |-> n]
instr_branch(label) == Instr("Branch", -1, NoProvider, label, 0)
instr_branch_table(index, n) == Instr("BranchTable", -1, Register(index), 0, n)
instr_copy(res, value) == Instr("Copy", res, value, 0, 0)
instr_return == Instr("Return", -1, NoProvider, 0, 0)
instr_return_reg(r) == Instr("ReturnReg", -1, Register(r), 0, 0)
instr_return_span(head, len) == Instr("ReturnSpan", -1, Register(head), 0, len)
instr_return_nez(cond) == Instr("ReturnNez", -1, Register(cond), 0, 0)
instr_register(value) == Instr("RegisterList", -1, value, 0, 0)

\* The fuel costs of the engine: of a basic block and of a call.
fuel_costs == [base |-> 1, call |-> 1]
make_consume_fuel_base ==
    Instr("ConsumeFuel", -1, NoProvider, 0, fuel_costs.base)

\* The translator state the handlers act on, as one record.
TS == [reachable |-> reachable, stack |-> stack, control |-> control_stack,
       else_providers |-> else_providers, instrs |-> instrs,
       labels |-> labels, fuel |-> fuel_metering, panicked |-> panicked]

\* ---- alloc.stack -------------------------------------------------------
height(t) == Len(t.stack)
next_dynamic(st) ==
    NumLocals + Cardinality({i \in DOMAIN st : is_dynamic(st[i])})
push_provider(t, p) == [t EXCEPT !.stack = Append(@, p)]
push_n(t, ps) == [t EXCEPT !.stack = @ \o ps]
push_local(t, i) == push_provider(t, Register(i))
push_const(t, v) == push_provider(t, Const(v))
push_dynamic(t) == push_provider(t, Register(next_dynamic(t.stack)))
push_dynamic_n(t, n) ==
    push_n(t, [i \in 1 .. n |-> Register(next_dynamic(t.stack) + i - 1)])
peek(t) == t.stack[Len(t.stack)]
peek_n(t, n) == SubSeq(t.stack, Len(t.stack) - n + 1, Len(t.stack))
pop_n(t, n) == [t EXCEPT !.stack = SubSeq(@, 1, Len(@) - n)]
pop(t) == pop_n(t, 1)
trunc(t, h) == [t EXCEPT !.stack = SubSeq(@, 1, h)]

\* ---- alloc.instr_encoder -----------------------------------------------
push_instr(t, i) == [t EXCEPT !.instrs = Append(@, i)]
append_instr(t, i) == [t EXCEPT !.instrs = Append(@, i)]
push_instrs(t, is) == [t EXCEPT !.instrs = @ \o is]
next_label(t) == Len(t.labels) + 1
new_label(t) == [t EXCEPT !.labels = Append(@, 0)]
pin_label(t, l) == [t EXCEPT !.labels[l] = Len(t.instrs) + 1]
pin_label_if_unpinned(t, l) == IF t.labels[l] = 0 THEN pin_label(t, l) ELSE t

\* The copies of values to the registers head, head+1, ...: a value that
\* already is its result register needs no copy; a span of registers is
\* copied back to front when the destination lies within the source.
RECURSIVE drop_noop_copies(_)
drop_noop_copies(is) ==
    IF is = << >> THEN << >>
    ELSE LET rest == drop_noop_copies(Tail(is))
         IN  IF Head(is).value = Register(Head(is).result)
                THEN rest ELSE <<Head(is)>> \o rest
encode_copies(t, head, values) ==
    LET fwd == [i \in 1 .. Len(values) |-> instr_copy(head + i - 1, values[i])]
        is_register_span ==
            /\ \A i \in DOMAIN values : values[i].tag = "Register"
            /\ \A i \in DOMAIN values : values[i].n = values[1].n + i - 1
        ordered == IF /\ values /= << >>
                      /\ is_register_span
                      /\ has_overlapping_copy_spans(head, values[1].n, Len(values))
                      THEN [i \in 1 .. Len(fwd) |-> fwd[Len(fwd) + 1 - i]]
                      ELSE fwd
    IN  push_instrs(t, drop_noop_copies(ordered))

\* encode_return: the return instruction for the given values.
encode_return(t, values) ==
    IF Len(values) = 0 THEN push_instr(t, instr_return)
    ELSE IF Len(values) = 1
         THEN IF values[1].tag = "Register"
                 THEN push_instr(t, instr_return_reg(values[1].n))
                 ELSE push_instr(t, Instr("ReturnImm", -1, values[1], 0, 0))
         ELSE push_instrs(push_instr(t, instr_return_span(-1, Len(values))),
                          [i \in 1 .. Len(values) |-> instr_register(values[i])])

\* encode_return_nez: the conditional return for the given values.
encode_return_nez(t, cond, values) ==
    IF Len(values) = 0 THEN push_instr(t, instr_return_nez(cond))
    ELSE IF Len(values) = 1
         THEN IF values[1].tag = "Register"
                 THEN push_instr(t, Instr("ReturnNezReg", values[1].n,
                                         Register(cond), 0, 0))
                 ELSE push_instr(t, Instr("ReturnNezImm", values[1].n,
                                         Register(cond), 0, 0))
         ELSE push_instrs(push_instr(t, instr_return_nez(cond)),
                          [i \in 1 .. Len(values) |-> instr_register(values[i])])

\* encode_branch_eqz, encode_branch_nez for a register condition.
encode_branch_eqz(t, cond, label) ==
    push_instr(t, Instr("BranchEqz", -1, Register(cond), label, 0))
encode_branch_nez(t, cond, label) ==
    push_instr(t, Instr("BranchNez", -1, Register(cond), label, 0))

\* encode_register_list: the continuation slots of an argument list.
encode_register_list(t, ps) ==
    push_instrs(t, [i \in 1 .. Len(ps) |-> instr_register(ps[i])])

\* ---- alloc.control_stack and its frames --------------------------------
\* A control frame.  label is the end label (the header label of a loop),
\* bp the head of the branch parameter span, consume_fuel the position of
\* the frame's ConsumeFuel instruction (0 = None).
ControlFrame(kind, ukind, p, r, h, label, bp, fuel, reach, else_label) ==
    [kind |-> kind, ukind |-> ukind, params |-> p, results |-> r,
     height |-> h, label |-> label, bp |-> bp, branches |-> 0,
     consume_fuel |-> fuel, reachability |-> reach,
     else_label |-> else_label, visited_else |-> FALSE,
     end_of_then |-> "None"]
BlockControlFrame(p, r, end_label, bp, h, fuel) ==
    ControlFrame("Block", "None", p, r, h, end_label, bp, fuel, "None", 0)
LoopControlFrame(p, r, header, h, bp, fuel) ==
    ControlFrame("Loop", "None", p, r, h, header, bp, fuel, "None", 0)
IfControlFrame(p, r, end_label, bp, h, fuel, reach, else_label) ==
    ControlFrame("If", "None", p, r, h, end_label, bp, fuel, reach, else_label)
UnreachableControlFrame(ukind, p, r) ==
    ControlFrame("Unreachable", ukind, p, r, 0, 0, 0, 0, "None", 0)

\* frame.branch_params(engine): the results of a block or if, the
\* parameters of a loop, as a span.
branch_params(f) ==
    [head |-> f.bp, len |-> IF f.kind = "Loop" THEN f.params ELSE f.results]
branch_destination(f) == f.label
is_branched_to(f) == f.branches >= 1
is_then_reachable(f) == f.reachability \in {"Both", "OnlyThen"}
is_else_reachable(f) == f.reachability \in {"Both", "OnlyElse"}
span_registers(bp) == [i \in 1 .. bp.len |-> Register(bp.head + i - 1)]

push_frame(t, f) == [t EXCEPT !.control = Append(@, f)]
pop_frame(t) == [t EXCEPT !.control = SubSeq(@, 1, Len(@) - 1)]
last_frame(t) == t.control[Len(t.control)]
push_else_providers(t, ps) == [t EXCEPT !.else_providers = Append(@, ps)]
pop_else_providers(t) ==
    [t EXCEPT !.else_providers = SubSeq(@, 1, Len(@) - 1)]
last_else_providers(t) == t.else_providers[Len(t.else_providers)]

\* acquire_target(depth): the position of the target frame in the control
\* stack, and whether it is the function body (AcquiredTarget::Return).
target_index(t, depth) == Len(t.control) - depth
is_return_target(t, depth) == target_index(t, depth) = 1
bump_branches(t, k) == [t EXCEPT !.control[k].branches = @ + 1]

\* bump_fuel_consumption(cost): adds to the ConsumeFuel of the top frame.
bump_fuel_consumption(t, cost) ==
    IF t.fuel /\ last_frame(t).consume_fuel /= 0
       THEN [t EXCEPT !.instrs[last_frame(t).consume_fuel].n = @ + cost]
       ELSE t

\* alloc_branch_params: the span of dynamic registers that follows the
\* stack without the block parameters; the stack is left as it was.
alloc_branch_params(t, len_block_params, len_branch_params) ==
    next_dynamic(pop_n(t, len_block_params).stack)

\* translate_copy_branch_params: pops the branch operands and copies them
\* to the branch parameter span.
translate_copy_branch_params(t, bp) ==
    IF bp.len = 0 THEN t
    ELSE encode_copies(pop_n(t, bp.len), bp.head, peek_n(t, bp.len))

\* translate_return: returns the function results on top of the stack.
translate_return(t) ==
    LET values == peek_n(t, func_type.results)
        t1 == encode_return(pop_n(t, func_type.results), values)
    IN  [t1 EXCEPT !.reachable = FALSE]

\* translate_return_if: returns them when the condition is not zero.
translate_return_if(t, cond) ==
    IF ~t.reachable THEN t
    ELSE encode_return_nez(t, cond, peek_n(t, func_type.results))

\* ---- the end of a control frame ----------------------------------------
push_branch_params(t, f) ==
    push_n(trunc(t, f.height), span_registers(branch_params(f)))

translate_end_block(t, f) ==
    LET t1 == IF t.reachable /\ is_branched_to(f)
                 THEN translate_copy_branch_params(t, branch_params(f)) ELSE t
        t2 == pin_label(t1, f.label)
        t3 == IF is_branched_to(f) THEN push_branch_params(t2, f) ELSE t2
        t4 == [t3 EXCEPT !.reachable = t.reachable \/ is_branched_to(f)]
    IN  IF t4.reachable /\ t4.control = << >> THEN translate_return(t4) ELSE t4

translate_end_loop(t, f) == t

translate_end_if_then_or_else_only(t, f, end_is_reachable) ==
    IF is_branched_to(f)
       THEN LET t1 == IF end_is_reachable
                         THEN translate_copy_branch_params(t, branch_params(f))
                         ELSE t
                t2 == pin_label(t1, f.label)
            IN  [push_branch_params(t2, f) EXCEPT !.reachable = TRUE]
       ELSE [pin_label(t, f.label) EXCEPT !.reachable = end_is_reachable]

translate_end_if_then_only(t, f) ==
    translate_end_if_then_or_else_only(t, f,
        IF f.end_of_then = "None" THEN t.reachable ELSE f.end_of_then = "True")

translate_end_if_else_only(t, f) ==
    translate_end_if_then_or_else_only(t, f, t.reachable \/ ~f.visited_else)

translate_end_if_then_with_else(t, f) ==
    LET end_of_then_reachable == f.end_of_then = "True"
        end_of_else_reachable == t.reachable
        reach == IF ~end_of_then_reachable /\ ~end_of_else_reachable
                    THEN is_branched_to(f) ELSE TRUE
        t1 == pin_label_if_unpinned(t, f.else_label)
        t2 == IF end_of_else_reachable
                 THEN translate_copy_branch_params(t1, branch_params(f)) ELSE t1
        t3 == pin_label(t2, f.label)
        t4 == IF reach THEN push_branch_params(t3, f) ELSE t3
    IN  [t4 EXCEPT !.reachable = reach]

translate_end_if_then_missing_else(t, f) ==
    LET end_of_then_reachable == t.reachable
        has_results == f.results >= 1
        t1 == IF end_of_then_reachable /\ has_results
                 THEN push_instr(
                        translate_copy_branch_params(t, branch_params(f)),
                        instr_branch(f.label))
                 ELSE t
        t2 == pin_label_if_unpinned(t1, f.else_label)
        else_ps == last_else_providers(t2)
        t3 == pop_else_providers(t2)
        t4 == IF has_results
                 THEN translate_copy_branch_params(
                        push_n(trunc(t3, f.height), else_ps), branch_params(f))
                 ELSE t3
        t5 == pin_label(t4, f.label)
    IN  [push_branch_params(t5, f) EXCEPT !.reachable = TRUE]

translate_end_if(t, f) ==
    IF is_then_reachable(f) /\ is_else_reachable(f)
       THEN IF f.visited_else THEN translate_end_if_then_with_else(t, f)
                              ELSE translate_end_if_then_missing_else(t, f)
    ELSE IF is_then_reachable(f) THEN translate_end_if_then_only(t, f)
    ELSE translate_end_if_else_only(t, f)

translate_end_unreachable(t, f) == t

\* ---- the handlers of visit.rs --------------------------------------------
visit_unreachable(t) ==
    IF ~t.reachable THEN t
    ELSE [push_instr(t, Instr("Trap", -1, NoProvider, 0, 0))
             EXCEPT !.reachable = FALSE]

visit_nop(t) == t

visit_block_height_with_params(t, p, r) ==
    IF ~t.reachable THEN push_frame(t, UnreachableControlFrame("Block", p, r))
    ELSE LET consume_fuel == last_frame(t).consume_fuel
             stack_height == height(t)
             end_label == next_label(t)
             t1 == new_label(t)
             bp == alloc_branch_params(t1, p, r)
         IN  push_frame(t1,
                 BlockControlFrame(p, r, end_label, bp, stack_height, consume_fuel))

visit_block_unreachable_pushes_nothing(t, p, r) ==
    IF ~t.reachable THEN t
    ELSE LET consume_fuel == last_frame(t).consume_fuel
             stack_height == height(t) - p
             end_label == next_label(t)
             t1 == new_label(t)
             bp == alloc_branch_params(t1, p, r)
         IN  push_frame(t1,
                 BlockControlFrame(p, r, end_label, bp, stack_height, consume_fuel))

visit_block(t, p, r) ==
    IF ~t.reachable THEN push_frame(t, UnreachableControlFrame("Block", p, r))
    ELSE LET consume_fuel == last_frame(t).consume_fuel
             stack_height == height(t) - p
             end_label == next_label(t)
             t1 == new_label(t)
             bp == alloc_branch_params(t1, p, r)
         IN  push_frame(t1,
                 BlockControlFrame(p, r, end_label, bp, stack_height, consume_fuel))

visit_loop_fuel_before_header(t, p, r) ==
    IF ~t.reachable THEN push_frame(t, UnreachableControlFrame("Loop", p, r))
    ELSE LET values == peek_n(t, p)
             t1 == pop_n(t, p)
             bp == next_dynamic(t1.stack)
             t2 == push_dynamic_n(t1, p)
             t3 == encode_copies(t2, bp, values)
             stack_height == height(t3) - p
             header == next_label(t3)
             consume_fuel == IF t.fuel THEN Len(t3.instrs) + 1 ELSE 0
             t4 == IF t.fuel THEN push_instr(t3, make_consume_fuel_base) ELSE t3
             t5 == pin_label(new_label(t4), header)
         IN  push_frame(t5,
                 LoopControlFrame(p, r, header, stack_height, bp, consume_fuel))

visit_loop(t, p, r) ==
    IF ~t.reachable THEN push_frame(t, UnreachableControlFrame("Loop", p, r))
    ELSE LET values == peek_n(t, p)
             t1 == pop_n(t, p)
             bp == next_dynamic(t1.stack)
             t2 == push_dynamic_n(t1, p)
             t3 == encode_copies(t2, bp, values)
             stack_height == height(t3) - p
             header == next_label(t3)
             t4 == pin_label(new_label(t3), header)
             consume_fuel == IF t.fuel THEN Len(t4.instrs) + 1 ELSE 0
             t5 == IF t.fuel THEN push_instr(t4, make_consume_fuel_base) ELSE t4
         IN  push_frame(t5,
                 LoopControlFrame(p, r, header, stack_height, bp, consume_fuel))

visit_if_zero_stays_reachable(t, p, r) ==
    IF ~t.reachable THEN push_frame(t, UnreachableControlFrame("If", p, r))
    ELSE LET condition == peek(t)
             t1 == pop(t)
             stack_height == height(t1) - p
             end_label == next_label(t1)
             t2 == new_label(t1)
             bp == alloc_branch_params(t2, p, r)
         IN  IF condition.tag = "Const"
                THEN LET then_taken == condition.n /= 0
                         t3 == t2
                         consume_fuel == last_frame(t).consume_fuel
                     IN  push_frame(t3,
                             IfControlFrame(p, r, end_label, bp, stack_height,
                                 consume_fuel,
                                 IF then_taken THEN "OnlyThen" ELSE "OnlyElse", 0))
                ELSE LET t3 == push_else_providers(t2, peek_n(t2, p))
                         else_label == next_label(t3)
                         t4 == encode_branch_eqz(new_label(t3), condition.n,
                                                 else_label)
                         consume_fuel == IF t.fuel THEN Len(t4.instrs) + 1 ELSE 0
                         t5 == IF t.fuel THEN push_instr(t4, make_consume_fuel_base)
                                         ELSE t4
                     IN  push_frame(t5,
                             IfControlFrame(p, r, end_label, bp, stack_height,
                                 consume_fuel, "Both", else_label))

visit_if(t, p, r) ==
    IF ~t.reachable THEN push_frame(t, UnreachableControlFrame("If", p, r))
    ELSE LET condition == peek(t)
             t1 == pop(t)
             stack_height == height(t1) - p
             end_label == next_label(t1)
             t2 == new_label(t1)
             bp == alloc_branch_params(t2, p, r)
         IN  IF condition.tag = "Const"
                THEN LET then_taken == condition.n /= 0
                         t3 == [t2 EXCEPT !.reachable = then_taken]
                         consume_fuel == last_frame(t).consume_fuel
                     IN  push_frame(t3,
                             IfControlFrame(p, r, end_label, bp, stack_height,
                                 consume_fuel,
                                 IF then_taken THEN "OnlyThen" ELSE "OnlyElse", 0))
                ELSE LET t3 == push_else_providers(t2, peek_n(t2, p))
                         else_label == next_label(t3)
                         t4 == encode_branch_eqz(new_label(t3), condition.n,
                                                 else_label)
                         consume_fuel == IF t.fuel THEN Len(t4.instrs) + 1 ELSE 0
                         t5 == IF t.fuel THEN push_instr(t4, make_consume_fuel_base)
                                         ELSE t4
                     IN  push_frame(t5,
                             IfControlFrame(p, r, end_label, bp, stack_height,
                                 consume_fuel, "Both", else_label))

visit_else_both_branch_uncounted(t, f) ==
    LET bp == branch_params(f)
        t1 == IF t.reachable
                 THEN push_instr(translate_copy_branch_params(t, bp),
                                 instr_branch(f.label))
                 ELSE t
        f1 == f
        t2 == pin_label([t1 EXCEPT !.reachable = TRUE], f.else_label)
        f2 == IF t.fuel THEN [f1 EXCEPT !.consume_fuel = Len(t2.instrs) + 1]
                        ELSE f1
        t3 == IF t.fuel THEN push_instr(t2, make_consume_fuel_base) ELSE t2
        t4 == push_n(trunc(pop_else_providers(t3), f.height),
                     last_else_providers(t3))
    IN  push_frame(t4, f2)

visit_else_both_keeps_then_stack(t, f) ==
    LET bp == branch_params(f)
        t1 == IF t.reachable
                 THEN push_instr(translate_copy_branch_params(t, bp),
                                 instr_branch(f.label))
                 ELSE t
        f1 == IF t.reachable THEN [f EXCEPT !.branches = @ + 1] ELSE f
        t2 == pin_label([t1 EXCEPT !.reachable = TRUE], f.else_label)
        f2 == IF t.fuel THEN [f1 EXCEPT !.consume_fuel = Len(t2.instrs) + 1]
                        ELSE f1
        t3 == IF t.fuel THEN push_instr(t2, make_consume_fuel_base) ELSE t2
        t4 == push_n(pop_else_providers(t3),
                     last_else_providers(t3))
    IN  push_frame(t4, f2)

\* The part of visit_else for an If frame with an else label.
visit_else_both(t, f) ==
    LET bp == branch_params(f)
        t1 == IF t.reachable
                 THEN push_instr(translate_copy_branch_params(t, bp),
                                 instr_branch(f.label))
                 ELSE t
        f1 == IF t.reachable THEN [f EXCEPT !.branches = @ + 1] ELSE f
        t2 == pin_label([t1 EXCEPT !.reachable = TRUE], f.else_label)
        f2 == IF t.fuel THEN [f1 EXCEPT !.consume_fuel = Len(t2.instrs) + 1]
                        ELSE f1
        t3 == IF t.fuel THEN push_instr(t2, make_consume_fuel_base) ELSE t2
        t4 == push_n(trunc(pop_else_providers(t3), f.height),
                     last_else_providers(t3))
    IN  push_frame(t4, f2)

visit_else(t) ==
    LET top == last_frame(t)
        t0 == pop_frame(t)
    IN  IF top.kind = "Unreachable" /\ top.ukind = "If" THEN t
        ELSE IF top.kind /= "If" THEN [t0 EXCEPT !.panicked = TRUE]
        ELSE LET f1 == [top EXCEPT !.visited_else = TRUE]
                 f2 == IF is_then_reachable(f1)
                          THEN [f1 EXCEPT !.end_of_then =
                                   IF t.reachable THEN "True" ELSE "False"]
                          ELSE f1
             IN  IF f2.else_label /= 0 THEN visit_else_both(t0, f2)
                 ELSE IF is_then_reachable(f2) /\ ~is_else_reachable(f2)
                      THEN push_frame([t0 EXCEPT !.reachable = FALSE], f2)
                 ELSE IF ~is_then_reachable(f2) /\ is_else_reachable(f2)
                      THEN push_frame([t0 EXCEPT !.reachable = TRUE], f2)
                 ELSE [t0 EXCEPT !.panicked = TRUE]

visit_end(t) ==
    LET f == last_frame(t)
        t0 == pop_frame(t)
    IN  IF f.kind = "Block" THEN translate_end_block(t0, f)
        ELSE IF f.kind = "Loop" THEN translate_end_loop(t0, f)
        ELSE IF f.kind = "If" THEN translate_end_if(t0, f)
        ELSE translate_end_unreachable(t0, f)

visit_br_uncounted(t, relative_depth) ==
    IF ~t.reachable THEN t
    ELSE IF is_return_target(t, relative_depth) THEN translate_return(t)
    ELSE LET k == target_index(t, relative_depth)
             t1 == t
             f == t1.control[k]
             t2 == translate_copy_branch_params(t1, branch_params(f))
             t3 == push_instr(t2, instr_branch(branch_destination(f)))
         IN  [t3 EXCEPT !.reachable = FALSE]

visit_br(t, relative_depth) ==
    IF ~t.reachable THEN t
    ELSE IF is_return_target(t, relative_depth) THEN translate_return(t)
    ELSE LET k == target_index(t, relative_depth)
             t1 == bump_branches(t, k)
             f == t1.control[k]
             t2 == translate_copy_branch_params(t1, branch_params(f))
             t3 == push_instr(t2, instr_branch(branch_destination(f)))
         IN  [t3 EXCEPT !.reachable = FALSE]

visit_br_if_register_skip_unpinned(t, condition, relative_depth) ==
    IF is_return_target(t, relative_depth)
       THEN translate_return_if(t, condition)
    ELSE LET k == target_index(t, relative_depth)
             t1 == bump_branches(t, k)
             f == t1.control[k]
             bp == branch_params(f)
             buffer == peek_n(t1, bp.len)
         IN  IF bp.len = 0
                THEN encode_branch_nez(t1, condition, branch_destination(f))
             ELSE IF buffer = span_registers(bp)
                THEN encode_branch_nez(t1, condition, branch_destination(f))
             ELSE LET skip_label == next_label(t1)
                      t2 == encode_branch_eqz(new_label(t1), condition, skip_label)
                      t3 == encode_copies(t2, bp.head, buffer)
                      t4 == push_instr(t3, instr_branch(branch_destination(f)))
                  IN  t4

visit_br_if_register_never_fuses_params(t, condition, relative_depth) ==
    IF is_return_target(t, relative_depth)
       THEN translate_return_if(t, condition)
    ELSE LET k == target_index(t, relative_depth)
             t1 == bump_branches(t, k)
             f == t1.control[k]
             bp == branch_params(f)
             buffer == peek_n(t1, bp.len)
         IN  IF bp.len = 0
                THEN encode_branch_nez(t1, condition, branch_destination(f))
             ELSE LET skip_label == next_label(t1)
                      t2 == encode_branch_eqz(new_label(t1), condition, skip_label)
                      t3 == encode_copies(t2, bp.head, buffer)
                      t4 == push_instr(t3, instr_branch(branch_destination(f)))
                  IN  pin_label(t4, skip_label)

\* The arm of visit_br_if for a register condition.
visit_br_if_register(t, condition, relative_depth) ==
    IF is_return_target(t, relative_depth)
       THEN translate_return_if(t, condition)
    ELSE LET k == target_index(t, relative_depth)
             t1 == bump_branches(t, k)
             f == t1.control[k]
             bp == branch_params(f)
             buffer == peek_n(t1, bp.len)
         IN  IF bp.len = 0
                THEN encode_branch_nez(t1, condition, branch_destination(f))
             ELSE IF buffer = span_registers(bp)
                THEN encode_branch_nez(t1, condition, branch_destination(f))
             ELSE LET skip_label == next_label(t1)
                      t2 == encode_branch_eqz(new_label(t1), condition, skip_label)
                      t3 == encode_copies(t2, bp.head, buffer)
                      t4 == push_instr(t3, instr_branch(branch_destination(f)))
                  IN  pin_label(t4, skip_label)

visit_br_if_only_one_is_true(t, relative_depth) ==
    IF ~t.reachable THEN t
    ELSE LET condition == peek(t)
             t1 == pop(t)
         IN  IF condition.tag = "Const"
                THEN IF condition.n = 1 THEN visit_br(t1, relative_depth)
                                        ELSE t1
                ELSE visit_br_if_register(t1, condition.n, relative_depth)

visit_br_if(t, relative_depth) ==
    IF ~t.reachable THEN t
    ELSE LET condition == peek(t)
             t1 == pop(t)
         IN  IF condition.tag = "Const"
                THEN IF condition.n /= 0 THEN visit_br(t1, relative_depth)
                                         ELSE t1
                ELSE visit_br_if_register(t1, condition.n, relative_depth)

\* u32::from(v) < n for an i32 v and a bound n below 2^31: a negative v
\* reads as an unsigned number of at least 2^31.
u32_below(v, n) == v >= 0 /\ v < n

\* The arms of a branch table whose targets share their branch parameters.
RECURSIVE br_table_shared_arms(_, _, _)
br_table_shared_arms(t, targets, return_instr) ==
    IF targets = << >> THEN t
    ELSE LET d == Head(targets)
             k == target_index(t, d)
             t1 == IF is_return_target(t, d)
                      THEN append_instr(t, return_instr)
                      ELSE append_instr(bump_branches(t, k),
                               instr_branch(branch_destination(t.control[k])))
         IN  br_table_shared_arms(t1, Tail(targets), return_instr)

\* The arms of a branch table with trampolines: one label per distinct
\* target depth (shared_targets), one branch per arm.
RECURSIVE br_table_trampoline_arms(_, _, _)
br_table_trampoline_arms(t, targets, shared) ==
    IF targets = << >> THEN [t |-> t, shared |-> shared]
    ELSE LET d == Head(targets)
             known == d \in DOMAIN shared
             label == IF known THEN shared[d] ELSE next_label(t)
             t1 == IF known THEN t ELSE new_label(t)
             shared1 == IF known THEN shared
                        ELSE [x \in DOMAIN shared \cup {d} |->
                                 IF x = d THEN label ELSE shared[x]]
         IN  br_table_trampoline_arms(append_instr(t1, instr_branch(label)),
                                      Tail(targets), shared1)

\* The trampolines, in ascending order of target depth.
RECURSIVE br_table_trampolines(_, _, _, _)
br_table_trampolines(t, depths, shared, values) ==
    IF depths = {} THEN t
    ELSE LET d == CHOOSE x \in depths : \A y \in depths : x <= y
             t1 == pin_label(t, shared[d])
             k == target_index(t1, d)
             t2 == IF is_return_target(t1, d) THEN encode_return(t1, values)
                   ELSE LET t3 == bump_branches(t1, k)
                            f == t3.control[k]
                            t4 == encode_copies(t3, branch_params(f).head, values)
                        IN  push_instr(t4, instr_branch(branch_destination(f)))
         IN  br_table_trampolines(t2, depths \ {d}, shared, values)

visit_br_table_shared_counts_targets_only(t, index, all, default_bp) ==
    LET t2 == translate_copy_branch_params(t, default_bp)
        t3 == push_instr(t2, instr_branch_table(index, Len(all) - 1))
        return_instr ==
            IF default_bp.len = 0 THEN instr_return
            ELSE IF default_bp.len = 1 THEN instr_return_reg(default_bp.head)
            ELSE instr_return_span(default_bp.head, default_bp.len)
        t4 == br_table_shared_arms(t3, all, return_instr)
    IN  [t4 EXCEPT !.reachable = FALSE]

\* visit_br_table when no target needs its own copies: the operands are
\* copied once, to the branch parameters of the default target.
visit_br_table_shared(t, index, all, default_bp) ==
    LET t2 == translate_copy_branch_params(t, default_bp)
        t3 == push_instr(t2, instr_branch_table(index, Len(all)))
        return_instr ==
            IF default_bp.len = 0 THEN instr_return
            ELSE IF default_bp.len = 1 THEN instr_return_reg(default_bp.head)
            ELSE instr_return_span(default_bp.head, default_bp.len)
        t4 == br_table_shared_arms(t3, all, return_instr)
    IN  [t4 EXCEPT !.reachable = FALSE]

visit_br_table_trampolines_falls_through(t, index, all, default_bp) ==
    LET t2 == push_instr(t, instr_branch_table(index, Len(all)))
        arms == br_table_trampoline_arms(t2, all, [x \in {} |-> 0])
        values == peek_n(arms.t, default_bp.len)
        t3 == pop_n(arms.t, default_bp.len)
    IN  br_table_trampolines(t3, DOMAIN arms.shared, arms.shared, values)

\* visit_br_table when targets differ in their branch parameters: every
\* arm branches to a trampoline that copies the operands for its target.
visit_br_table_trampolines(t, index, all, default_bp) ==
    LET t2 == push_instr(t, instr_branch_table(index, Len(all)))
        arms == br_table_trampoline_arms(t2, all, [x \in {} |-> 0])
        values == peek_n(arms.t, default_bp.len)
        t3 == pop_n(arms.t, default_bp.len)
        t4 == br_table_trampolines(t3, DOMAIN arms.shared, arms.shared, values)
    IN  [t4 EXCEPT !.reachable = FALSE]

visit_br_table_first_target(t, targets, default_target) ==
    IF ~t.reachable THEN t
    ELSE LET index == peek(t)
             t1 == pop(t)
         IN  IF targets = << >> THEN visit_br(t1, default_target)
             ELSE IF index.tag = "Const"
                THEN LET chosen_index == index.n
                         chosen_target == targets[1]
                     IN  visit_br(t1, chosen_target)
             ELSE LET default_bp ==
                          branch_params(t1.control[target_index(t1, default_target)])
                      all == Append(targets, default_target)
                      same_branch_params ==
                          \A i \in DOMAIN all :
                              \/ is_return_target(t1, all[i])
                              \/ branch_params(t1.control[target_index(t1, all[i])])
                                   = default_bp
                  IN  IF default_bp.len = 0 \/ same_branch_params
                         THEN visit_br_table_shared(t1, index.n, all, default_bp)
                         ELSE visit_br_table_trampolines(t1, index.n, all,
                                                         default_bp)

visit_br_table(t, targets, default_target) ==
    IF ~t.reachable THEN t
    ELSE LET index == peek(t)
             t1 == pop(t)
         IN  IF targets = << >> THEN visit_br(t1, default_target)
             ELSE IF index.tag = "Const"
                THEN LET chosen_index == index.n
                         chosen_target == IF u32_below(chosen_index, Len(targets))
                                             THEN targets[chosen_index + 1]
                                             ELSE default_target
                     IN  visit_br(t1, chosen_target)
             ELSE LET default_bp ==
                          branch_params(t1.control[target_index(t1, default_target)])
                      all == Append(targets, default_target)
                      same_branch_params ==
                          \A i \in DOMAIN all :
                              \/ is_return_target(t1, all[i])
                              \/ branch_params(t1.control[target_index(t1, all[i])])
                                   = default_bp
                  IN  IF default_bp.len = 0 \/ same_branch_params
                         THEN visit_br_table_shared(t1, index.n, all, default_bp)
                         ELSE visit_br_table_trampolines(t1, index.n, all,
                                                         default_bp)

visit_return(t) == IF ~t.reachable THEN t ELSE translate_return(t)

\* The table slot of an indirect call: the index as a 16-bit immediate when
\* it is a constant that fits, as a register otherwise.
call_indirect_params(index, table_index) ==
    IF index.tag = "Const" /\ u32_below(index.n, 65536)
       THEN Instr("CallIndirectParamsImm16", -1, Const(index.n), 0, table_index)
       ELSE Instr("CallIndirectParams", -1, index, 0, table_index)

visit_call_results_first(t, function_index) ==
    IF ~t.reachable THEN t
    ELSE LET t1 == bump_fuel_consumption(t, fuel_costs.call)
             ft == func_type_of(function_index)
             provider_params == peek_n(t1, ft.params)
             t2 == pop_n(t1, ft.params)
             res == next_dynamic(t1.stack)
             t3 == push_n(t2, [i \in 1 .. ft.results |-> Register(res + i - 1)])
             op == IF get_compiled_func_2(function_index)
                      THEN IF ft.params = 0 THEN "CallInternal0" ELSE "CallInternal"
                      ELSE IF ft.params = 0 THEN "CallImported0" ELSE "CallImported"
             t4 == push_instr(t3, Instr(op, res, NoProvider, 0, function_index))
         IN  encode_register_list(t4, provider_params)

visit_call(t, function_index) ==
    IF ~t.reachable THEN t
    ELSE LET t1 == bump_fuel_consumption(t, fuel_costs.call)
             ft == func_type_of(function_index)
             provider_params == peek_n(t1, ft.params)
             t2 == pop_n(t1, ft.params)
             res == next_dynamic(t2.stack)
             t3 == push_dynamic_n(t2, ft.results)
             op == IF get_compiled_func_2(function_index)
                      THEN IF ft.params = 0 THEN "CallInternal0" ELSE "CallInternal"
                      ELSE IF ft.params = 0 THEN "CallImported0" ELSE "CallImported"
             t4 == push_instr(t3, Instr(op, res, NoProvider, 0, function_index))
         IN  encode_register_list(t4, provider_params)

visit_call_indirect(t, type_index, table_index) ==
    IF ~t.reachable THEN t
    ELSE LET t1 == bump_fuel_consumption(t, fuel_costs.call)
             ft == func_type_at(type_index)
             index == peek(t1)
             t2 == pop(t1)
             provider_params == peek_n(t2, ft.params)
             t3 == pop_n(t2, ft.params)
             table_params == call_indirect_params(index, table_index)
             res == next_dynamic(t3.stack)
             t4 == push_dynamic_n(t3, ft.results)
             op == IF ft.params = 0 THEN "CallIndirect0" ELSE "CallIndirect"
             t5 == push_instr(t4, Instr(op, res, NoProvider, 0, type_index))
             t6 == append_instr(t5, table_params)
         IN  encode_register_list(t6, provider_params)

visit_return_call_allocates_results(t, function_index) ==
    IF ~t.reachable THEN t
    ELSE LET t1 == bump_fuel_consumption(t, fuel_costs.call)
             ft == func_type_of(function_index)
             provider_params == peek_n(t1, ft.params)
             t2 == push_dynamic_n(pop_n(t1, ft.params), ft.results)
             op == IF get_compiled_func_2(function_index)
                      THEN IF ft.params = 0 THEN "ReturnCallInternal0"
                                            ELSE "ReturnCallInternal"
                      ELSE IF ft.params = 0 THEN "ReturnCallImported0"
                                            ELSE "ReturnCallImported"
             t3 == push_instr(t2, Instr(op, -1, NoProvider, 0, function_index))
             t4 == encode_register_list(t3, provider_params)
         IN  [t4 EXCEPT !.reachable = FALSE]

visit_return_call(t, function_index) ==
    IF ~t.reachable THEN t
    ELSE LET t1 == bump_fuel_consumption(t, fuel_costs.call)
             ft == func_type_of(function_index)
             provider_params == peek_n(t1, ft.params)
             t2 == pop_n(t1, ft.params)
             op == IF get_compiled_func_2(function_index)
                      THEN IF ft.params = 0 THEN "ReturnCallInternal0"
                                            ELSE "ReturnCallInternal"
                      ELSE IF ft.params = 0 THEN "ReturnCallImported0"
                                            ELSE "ReturnCallImported"
             t3 == push_instr(t2, Instr(op, -1, NoProvider, 0, function_index))
             t4 == encode_register_list(t3, provider_params)
         IN  [t4 EXCEPT !.reachable = FALSE]

visit_return_call_indirect(t, type_index, table_index) ==
    IF ~t.reachable THEN t
    ELSE LET t1 == bump_fuel_consumption(t, fuel_costs.call)
             ft == func_type_at(type_index)
             index == peek(t1)
             t2 == pop(t1)
             provider_params == peek_n(t2, ft.params)
             t3 == pop_n(t2, ft.params)
             table_params == call_indirect_params(index, table_index)
             op == IF ft.params = 0 THEN "ReturnCallIndirect0"
                                    ELSE "ReturnCallIndirect"
             t4 == push_instr(t3, Instr(op, -1, NoProvider, 0, type_index))
             t5 == append_instr(t4, table_params)
             t6 == encode_register_list(t5, provider_params)
         IN  [t6 EXCEPT !.reachable = FALSE]

visit_drop(t) == IF ~t.reachable THEN t ELSE pop(t)

visit_local_get_copies(t, local_index) ==
    IF ~t.reachable THEN t
    ELSE LET t1 == push_dynamic(t)
         IN  push_instr(t1, instr_copy(peek(t1).n, Register(local_index)))

visit_local_get(t, local_index) ==
    IF ~t.reachable THEN t ELSE push_local(t, local_index)

\* preserve_locals: every provider of the stack that names the local is
\* moved to the local's register of the preservation space.
preserve_locals(t, local_index) ==
    [t EXCEPT !.stack =
        [i \in DOMAIN @ |-> IF @[i] = Register(local_index)
                               THEN Register(preserved_register(local_index))
                               ELSE @[i]]]

\* encode_local_set_v2: saves the local if it was preserved, then writes it.
encode_local_set_v2(t, local, value, preserved) ==
    LET t1 == IF preserved
                 THEN push_instr(t, instr_copy(preserved_register(local),
                                               Register(local)))
                 ELSE t
    IN  IF value = Register(local) THEN t1
        ELSE push_instr(t1, instr_copy(local, value))

visit_local_set(t, local_index) ==
    IF ~t.reachable THEN t
    ELSE LET value == peek(t)
             t1 == pop(t)
             preserved == \E i \in DOMAIN t1.stack :
                              t1.stack[i] = Register(local_index)
             t2 == preserve_locals(t1, local_index)
         IN  encode_local_set_v2(t2, local_index, value, preserved)

visit_local_tee_unguarded(t, local_index) ==
    push_local(visit_local_set(t, local_index), local_index)

visit_local_tee(t, local_index) ==
    IF ~t.reachable THEN t
    ELSE push_local(visit_local_set(t, local_index), local_index)

visit_i32_const(t, value) == IF ~t.reachable THEN t ELSE push_const(t, value)

visit_memory_size(t) ==
    IF ~t.reachable THEN t
    ELSE LET res == next_dynamic(t.stack)
         IN  push_instr(push_dynamic(t),
                        Instr("MemorySize", res, NoProvider, 0, 0))

(***************************************************************************)
(* The operators the translator is fed.  The handlers are only ever called *)
(* on a validated function body, so the model keeps the state of the Wasm  *)
(* validator next to the translator and offers a handler only an operator   *)
(* that validates.  All values are of type i32.                             *)
(***************************************************************************)
Op(name, a, b, ts) == [op |-> name, a |-> a, b |-> b, ts |-> ts]

VS == [frames |-> v_frames, height |-> v_height]
v_top(v) == v.frames[Len(v.frames)]
v_target(v, d) == v.frames[Len(v.frames) - d]
v_label_arity(f) == IF f.kind = "loop" THEN f.params ELSE f.results
\* After unreachable the operand stack is polymorphic: popping below the
\* height of the frame succeeds.
v_can_pop(v, n) == v_top(v).unreachable \/ v.height - n >= v_top(v).h
v_after_pop(v, n) ==
    IF v.height - n >= v_top(v).h THEN v.height - n ELSE v_top(v).h
\* Does the operator validate in validator state v?
v_valid(v, o) ==
    LET f == v_top(v)
        v_end_ok == IF f.unreachable THEN v.height <= f.h + f.results
                                     ELSE v.height = f.h + f.results
    IN
    CASE o.op \in {"unreachable", "nop", "local.get", "i32.const", "memory.size"}
             -> TRUE
      [] o.op \in {"block", "loop"}
             -> Len(v.frames) <= MaxDepth /\ v_can_pop(v, o.a)
      [] o.op = "if" -> Len(v.frames) <= MaxDepth /\ v_can_pop(v, 1 + o.a)
      [] o.op = "else" -> v_top(v).kind = "if" /\ v_end_ok
      [] o.op = "end"
             -> /\ v_end_ok
                /\ v_top(v).kind = "if" => v_top(v).params = v_top(v).results
      [] o.op = "br"
             -> o.a < Len(v.frames) /\ v_can_pop(v, v_label_arity(v_target(v, o.a)))
      [] o.op = "br_if"
             -> /\ o.a < Len(v.frames)
                /\ v_can_pop(v, 1 + v_label_arity(v_target(v, o.a)))
      [] o.op = "br_table"
             -> /\ o.a < Len(v.frames)
                /\ \A i \in DOMAIN o.ts :
                      /\ o.ts[i] < Len(v.frames)
                      /\ v_label_arity(v_target(v, o.ts[i]))
                           = v_label_arity(v_target(v, o.a))
                /\ v_can_pop(v, 1 + v_label_arity(v_target(v, o.a)))
      [] o.op = "return" -> v_can_pop(v, func_type.results)
      [] o.op = "call" -> v_can_pop(v, func_type_of(o.a).params)
      [] o.op = "call_indirect" -> v_can_pop(v, 1 + func_type_at(o.a).params)
      [] o.op = "return_call"
             -> /\ func_type_of(o.a).results = func_type.results
                /\ v_can_pop(v, func_type_of(o.a).params)
      [] o.op = "return_call_indirect"
             -> /\ func_type_at(o.a).results = func_type.results
                /\ v_can_pop(v, 1 + func_type_at(o.a).params)
      [] o.op \in {"drop", "local.set", "local.tee"} -> v_can_pop(v, 1)

\* The validator state after the operator.
v_apply(v, o) ==
    LET top == Len(v.frames)
        v_step(pops, pushes) ==
            [v EXCEPT !.height = v_after_pop(v, pops) + pushes]
        v_diverge ==
            [frames |-> [v.frames EXCEPT ![top].unreachable = TRUE],
             height |-> v_top(v).h]
        v_enter(kind, p, r, extra) ==
            LET h == v_after_pop(v, extra + p)
            IN  [frames |-> Append(v.frames, [kind |-> kind, params |-> p,
                                              results |-> r, h |-> h,
                                              unreachable |-> FALSE]),
                 height |-> h + p]
        v_else ==
            [frames |-> [v.frames EXCEPT ![top].kind = "else",
                                         ![top].unreachable = FALSE],
             height |-> v_top(v).h + v_top(v).params]
        v_leave ==
            [frames |-> SubSeq(v.frames, 1, top - 1),
             height |-> v_top(v).h + v_top(v).results]
    IN
    CASE o.op \in {"unreachable", "br", "br_table", "return", "return_call",
                   "return_call_indirect"} -> v_diverge
      [] o.op = "nop" -> v
      [] o.op \in {"local.get", "i32.const", "memory.size"} -> v_step(0, 1)
      [] o.op = "block" -> v_enter("block", o.a, o.b, 0)
      [] o.op = "loop" -> v_enter("loop", o.a, o.b, 0)
      [] o.op = "if" -> v_enter("if", o.a, o.b, 1)
      [] o.op = "else" -> v_else
      [] o.op = "end" -> v_leave
      [] o.op = "br_if"
             -> LET n == v_label_arity(v_target(v, o.a))
                IN  v_step(1 + n, n)
      [] o.op = "call"
             -> v_step(func_type_of(o.a).params, func_type_of(o.a).results)
      [] o.op = "call_indirect"
             -> v_step(1 + func_type_at(o.a).params, func_type_at(o.a).results)
      [] o.op \in {"drop", "local.set"} -> v_step(1, 0)
      [] o.op = "local.tee" -> v_step(1, 1)

\* FuncTranslator::new: the function body is a block frame whose branch
\* parameters are the first dynamic registers; with fuel metering the body
\* starts with a ConsumeFuel instruction.
TransInit ==
    /\ fuel_metering \in BOOLEAN
    /\ reachable = TRUE
    /\ stack = << >>
    /\ control_stack =
           <<BlockControlFrame(func_type.params, func_type.results, 1,
                               NumLocals, 0, IF fuel_metering THEN 1 ELSE 0)>>
    /\ else_providers = << >>
    /\ instrs = IF fuel_metering THEN <<make_consume_fuel_base>> ELSE << >>
    /\ labels = <<0>>
    /\ panicked = FALSE
    /\ v_frames = <<[kind |-> "func", params |-> 0,
                     results |-> func_type.results, h |-> 0,
                     unreachable |-> FALSE]>>
    /\ v_height = 0
    /\ tr_pc = "translating"
    /\ last_op = Op("none", 0, 0, << >>)
    /\ was_reachable = TRUE
    /\ n_ops = 0
    /\ prev = TS

\* The translation driver may read operator o next.
Reads(o) ==
    /\ tr_pc = "translating"
    /\ ~panicked
    /\ n_ops < MaxOps
    /\ v_valid(VS, o)

\* The handler of operator o has left the translator in state t.
Translated(o, t) ==
    /\ reachable' = t.reachable
    /\ stack' = t.stack
    /\ control_stack' = t.control
    /\ else_providers' = t.else_providers
    /\ instrs' = t.instrs
    /\ labels' = t.labels
    /\ panicked' = t.panicked
    /\ v_frames' = v_apply(VS, o).frames
    /\ v_height' = v_apply(VS, o).height
    /\ tr_pc' = IF v_apply(VS, o).frames = << >> THEN "finished"
                                                 ELSE "translating"
    /\ last_op' = o
    /\ was_reachable' = reachable
    /\ n_ops' = n_ops + 1
    /\ prev' = TS
    /\ UNCHANGED <<fuel_metering, not_trans_vars>>

Depths == 0 .. MaxDepth
BrTableTargets == {<< >>} \cup {<<d>> : d \in Depths}

VisitUnreachable ==
    /\ Reads(Op("unreachable", 0, 0, << >>))
    /\ Translated(Op("unreachable", 0, 0, << >>), visit_unreachable(TS))
VisitNop ==
    /\ Reads(Op("nop", 0, 0, << >>))
    /\ Translated(Op("nop", 0, 0, << >>), visit_nop(TS))
VisitBlock(bt) ==
    /\ Reads(Op("block", bt[1], bt[2], << >>))
    /\ Translated(Op("block", bt[1], bt[2], << >>), visit_block(TS, bt[1], bt[2]))
VisitLoop(bt) ==
    /\ Reads(Op("loop", bt[1], bt[2], << >>))
    /\ Translated(Op("loop", bt[1], bt[2], << >>), visit_loop(TS, bt[1], bt[2]))
VisitIf(bt) ==
    /\ Reads(Op("if", bt[1], bt[2], << >>))
    /\ Translated(Op("if", bt[1], bt[2], << >>), visit_if(TS, bt[1], bt[2]))
VisitElse ==
    /\ Reads(Op("else", 0, 0, << >>))
    /\ Translated(Op("else", 0, 0, << >>), visit_else(TS))
VisitEnd ==
    /\ Reads(Op("end", 0, 0, << >>))
    /\ Translated(Op("end", 0, 0, << >>), visit_end(TS))
VisitBr(d) ==
    /\ Reads(Op("br", d, 0, << >>))
    /\ Translated(Op("br", d, 0, << >>), visit_br(TS, d))
VisitBrIf(d) ==
    /\ Reads(Op("br_if", d, 0, << >>))
    /\ Translated(Op("br_if", d, 0, << >>), visit_br_if(TS, d))
VisitBrTable(ts, d) ==
    /\ Reads(Op("br_table", d, 0, ts))
    /\ Translated(Op("br_table", d, 0, ts), visit_br_table(TS, ts, d))
VisitReturn ==
    /\ Reads(Op("return", 0, 0, << >>))
    /\ Translated(Op("return", 0, 0, << >>), visit_return(TS))
VisitCall(f) ==
    /\ Reads(Op("call", f, 0, << >>))
    /\ Translated(Op("call", f, 0, << >>), visit_call(TS, f))
VisitCallIndirect(ty) ==
    /\ Reads(Op("call_indirect", ty, 0, << >>))
    /\ Translated(Op("call_indirect", ty, 0, << >>), visit_call_indirect(TS, ty, 0))
VisitReturnCall(f) ==
    /\ Reads(Op("return_call", f, 0, << >>))
    /\ Translated(Op("return_call", f, 0, << >>), visit_return_call(TS, f))
VisitReturnCallIndirect(ty) ==
    /\ Reads(Op("return_call_indirect", ty, 0, << >>))
    /\ Translated(Op("return_call_indirect", ty, 0, << >>), visit_return_call_indirect(TS, ty, 0))
VisitDrop ==
    /\ Reads(Op("drop", 0, 0, << >>))
    /\ Translated(Op("drop", 0, 0, << >>), visit_drop(TS))
VisitLocalGet(i) ==
    /\ Reads(Op("local.get", i, 0, << >>))
    /\ Translated(Op("local.get", i, 0, << >>), visit_local_get(TS, i))
VisitLocalSet(i) ==
    /\ Reads(Op("local.set", i, 0, << >>))
    /\ Translated(Op("local.set", i, 0, << >>), visit_local_set(TS, i))
VisitLocalTee(i) ==
    /\ Reads(Op("local.tee", i, 0, << >>))
    /\ Translated(Op("local.tee", i, 0, << >>), visit_local_tee(TS, i))
VisitI32Const(v) ==
    /\ Reads(Op("i32.const", v, 0, << >>))
    /\ Translated(Op("i32.const", v, 0, << >>), visit_i32_const(TS, v))
VisitMemorySize ==
    /\ Reads(Op("memory.size", 0, 0, << >>))
    /\ Translated(Op("memory.size", 0, 0, << >>), visit_memory_size(TS))

TransNext ==
    \/ VisitUnreachable
    \/ VisitNop
    \/ \E bt \in BlockTypes : VisitBlock(bt)
    \/ \E bt \in BlockTypes : VisitLoop(bt)
    \/ \E bt \in BlockTypes : VisitIf(bt)
    \/ VisitElse
    \/ VisitEnd
    \/ \E d \in Depths : VisitBr(d)
    \/ \E d \in Depths : VisitBrIf(d)
    \/ \E ts \in BrTableTargets, d \in Depths : VisitBrTable(ts, d)
    \/ VisitReturn
    \/ \E f \in Callees : VisitCall(f)
    \/ \E ty \in SignatureIdxs : VisitCallIndirect(ty)
    \/ \E f \in Callees : VisitReturnCall(f)
    \/ \E ty \in SignatureIdxs : VisitReturnCallIndirect(ty)
    \/ VisitDrop
    \/ \E i \in Locals : VisitLocalGet(i)
    \/ \E i \in Locals : VisitLocalSet(i)
    \/ \E i \in Locals : VisitLocalTee(i)
    \/ \E v \in ConstVals : VisitI32Const(v)
    \/ VisitMemorySize

(***************************************************************************)
(* PART 4.  Operand folds: the handlers that inspect their operands and    *)
(* either fold the operator away or emit an instruction for it.  A handler *)
(* is applied once, to any pair of providers; registers hold any value at  *)
(* run time.                                                               *)
(***************************************************************************)

\* The registers an operand can name.
FoldRegs == {0, 1}

\* Floats: NaN, the two infinities and the finite values -MaxFinite ..
\* MaxFinite.  Comparisons do not tell +0 from -0.
NAN == [cls |-> "nan", v |-> 0]
INFINITY == [cls |-> "inf", v |-> 1]
NEG_INFINITY == [cls |-> "inf", v |-> -1]
FloatVals ==
    {NAN, INFINITY, NEG_INFINITY}
        \cup {[cls |-> "finite", v |-> x] : x \in -MaxFinite .. MaxFinite}

is_nan(f) == f.cls = "nan"

FloatProviders == {Register(r) : r \in FoldRegs} \cup {Const(f) : f \in FloatVals}

\* The comparisons of Wasm floats (TypedValue::f32_eq .. f64_ge): every
\* comparison with a NaN operand is false, except ne, which is true.
TypedValue_fcompare(op, a, b) ==
    LET rank(f) == IF f.cls = "inf" THEN f.v * (MaxFinite + 1) ELSE f.v
        unordered == is_nan(a) \/ is_nan(b)
    IN  CASE op = "eq" -> ~unordered /\ rank(a) = rank(b)
          [] op = "ne" -> unordered \/ rank(a) /= rank(b)
          [] op = "lt" -> ~unordered /\ rank(a) < rank(b)
          [] op = "gt" -> ~unordered /\ rank(a) > rank(b)
          [] op = "le" -> ~unordered /\ rank(a) <= rank(b)
          [] op = "ge" -> ~unordered /\ rank(a) >= rank(b)

\* An instruction constructor a handler hands to its generic helper: the
\* operator it encodes and the form of the encoding.
InstrCtor(ty, op, form) == [ty |-> ty, op |-> op, form |-> form, swap |-> FALSE]

\* swap_ops!: the constructor applied with its two operands exchanged.
swap_ops(ctor) == [ctor EXCEPT !.swap = TRUE]

\* The reference function a handler hands over for two constant operands.
ConstEval(ty, op) == InstrCtor(ty, op, "consteval")

\* What a handler did with its operands.
Folded(provider) == [kind |-> "folded", provider |-> provider]
Emitted == [kind |-> "instr", provider |-> NoProvider]

\* A custom optimisation that never applies.
no_custom_opt(lhs, rhs) == NoProvider

\* The generic helper of a non-commutative float operator: two constants
\* are evaluated, any other pair is offered to the matching custom
\* optimisation, and an instruction is emitted if that does not apply.
translate_fbinary(lhs, rhs, consteval(_, _), make_instr_opt(_, _),
                  make_instr_imm_opt(_, _), make_instr_imm_opt_rev(_, _)) ==
    LET opt == CASE lhs.tag = "Register" /\ rhs.tag = "Register" ->
                      make_instr_opt(lhs.n, rhs.n)
                 [] lhs.tag = "Register" /\ rhs.tag = "Const" ->
                      make_instr_imm_opt(lhs.n, rhs.n)
                 [] lhs.tag = "Const" /\ rhs.tag = "Register" ->
                      make_instr_imm_opt_rev(lhs.n, rhs.n)
                 [] OTHER -> Const(consteval(lhs.n, rhs.n))
    IN  IF opt.tag = "None" THEN Emitted ELSE Folded(opt)

\* The generic helper of a commutative float operator: a constant and a
\* register are offered to the same custom optimisation in either order.
translate_fbinary_commutative(lhs, rhs, consteval(_, _), make_instr_opt(_, _),
                              make_instr_imm_opt(_, _)) ==
    LET opt == CASE lhs.tag = "Register" /\ rhs.tag = "Register" ->
                      make_instr_opt(lhs.n, rhs.n)
                 [] lhs.tag = "Register" /\ rhs.tag = "Const" ->
                      make_instr_imm_opt(lhs.n, rhs.n)
                 [] lhs.tag = "Const" /\ rhs.tag = "Register" ->
                      make_instr_imm_opt(rhs.n, lhs.n)
                 [] OTHER -> Const(consteval(lhs.n, rhs.n))
    IN  IF opt.tag = "None" THEN Emitted ELSE Folded(opt)

visit_f32_eq ==
    /\ fd_op[1] = "none"
    /\ \E lhs \in FloatProviders, rhs \in FloatProviders :
         LET make_instr_imm_opt(reg_in, imm_in) ==
                 IF is_nan(imm_in) THEN Const(FALSE) ELSE NoProvider
             consteval(l, r) == TypedValue_fcompare("eq", l, r)
         IN  /\ fd_in' = <<lhs, rhs>>
             /\ fd_out' = translate_fbinary_commutative(lhs, rhs, consteval,
                                                        no_custom_opt, make_instr_imm_opt)
    /\ fd_ctors' = <<InstrCtor("f32", "eq", "reg"),
                     InstrCtor("f32", "eq", "assign"),
                     InstrCtor("f32", "eq", "assign_imm"),
                     ConstEval("f32", "eq")>>
    /\ fd_op' = <<"f32", "eq">>
    /\ UNCHANGED not_fold_vars

visit_f32_ne ==
    /\ fd_op[1] = "none"
    /\ \E lhs \in FloatProviders, rhs \in FloatProviders :
         LET make_instr_imm_opt(reg_in, imm_in) ==
                 IF is_nan(imm_in) THEN Const(TRUE) ELSE NoProvider
             consteval(l, r) == TypedValue_fcompare("ne", l, r)
         IN  /\ fd_in' = <<lhs, rhs>>
             /\ fd_out' = translate_fbinary_commutative(lhs, rhs, consteval,
                                                        no_custom_opt, make_instr_imm_opt)
    /\ fd_ctors' = <<InstrCtor("f32", "ne", "reg"),
                     InstrCtor("f32", "ne", "assign"),
                     InstrCtor("f32", "ne", "assign_imm"),
                     ConstEval("f32", "ne")>>
    /\ fd_op' = <<"f32", "ne">>
    /\ UNCHANGED not_fold_vars

visit_f32_lt ==
    /\ fd_op[1] = "none"
    /\ \E lhs \in FloatProviders, rhs \in FloatProviders :
         LET make_instr_opt(l, r) == IF l = r THEN Const(FALSE) ELSE NoProvider
             make_instr_imm_opt(l, r) == IF is_nan(r) \/ r = NEG_INFINITY THEN Const(FALSE) ELSE NoProvider
             make_instr_imm_opt_rev(l, r) == IF is_nan(l) \/ l = INFINITY THEN Const(FALSE) ELSE NoProvider
             consteval(l, r) == TypedValue_fcompare("lt", l, r)
         IN  /\ fd_in' = <<lhs, rhs>>
             /\ fd_out' = translate_fbinary(lhs, rhs, consteval, make_instr_opt,
                                            make_instr_imm_opt, make_instr_imm_opt_rev)
    /\ fd_ctors' = <<InstrCtor("f32", "lt", "reg"),
                     InstrCtor("f32", "lt", "assign"),
                     InstrCtor("f32", "lt", "assign_imm"),
                     ConstEval("f32", "lt")>>
    /\ fd_op' = <<"f32", "lt">>
    /\ UNCHANGED not_fold_vars

visit_f32_gt ==
    /\ fd_op[1] = "none"
    /\ \E lhs \in FloatProviders, rhs \in FloatProviders :
         LET make_instr_opt(l, r) == IF l = r THEN Const(FALSE) ELSE NoProvider
             make_instr_imm_opt(l, r) == IF is_nan(r) \/ r = INFINITY THEN Const(FALSE) ELSE NoProvider
             make_instr_imm_opt_rev(l, r) == IF is_nan(l) \/ l = NEG_INFINITY THEN Const(FALSE) ELSE NoProvider
             consteval(l, r) == TypedValue_fcompare("gt", l, r)
         IN  /\ fd_in' = <<lhs, rhs>>
             /\ fd_out' = translate_fbinary(lhs, rhs, consteval, make_instr_opt,
                                            make_instr_imm_opt, make_instr_imm_opt_rev)
    /\ fd_ctors' = <<InstrCtor("f32", "gt", "reg"),
                     InstrCtor("f32", "gt", "assign"),
                     InstrCtor("f32", "gt", "assign_imm"),
                     ConstEval("f32", "gt")>>
    /\ fd_op' = <<"f32", "gt">>
    /\ UNCHANGED not_fold_vars

visit_f32_le ==
    /\ fd_op[1] = "none"
    /\ \E lhs \in FloatProviders, rhs \in FloatProviders :
         LET make_instr_opt(l, r) == IF l = r THEN Const(TRUE) ELSE NoProvider
             make_instr_imm_opt(l, r) == IF is_nan(r) THEN Const(FALSE) ELSE NoProvider
             make_instr_imm_opt_rev(l, r) == IF is_nan(l) THEN Const(FALSE) ELSE NoProvider
             consteval(l, r) == TypedValue_fcompare("le", l, r)
         IN  /\ fd_in' = <<lhs, rhs>>
             /\ fd_out' = translate_fbinary(lhs, rhs, consteval, make_instr_opt,
                                            make_instr_imm_opt, make_instr_imm_opt_rev)
    /\ fd_ctors' = <<InstrCtor("f32", "le", "reg"),
                     InstrCtor("f32", "le", "assign"),
                     InstrCtor("f32", "le", "assign_imm"),
                     ConstEval("f32", "le")>>
    /\ fd_op' = <<"f32", "le">>
    /\ UNCHANGED not_fold_vars

visit_f32_ge ==
    /\ fd_op[1] = "none"
    /\ \E lhs \in FloatProviders, rhs \in FloatProviders :
         LET make_instr_opt(l, r) == IF l = r THEN Const(TRUE) ELSE NoProvider
             make_instr_imm_opt(l, r) == IF is_nan(r) THEN Const(FALSE) ELSE NoProvider
             make_instr_imm_opt_rev(l, r) == IF is_nan(l) THEN Const(FALSE) ELSE NoProvider
             consteval(l, r) == TypedValue_fcompare("ge", l, r)
         IN  /\ fd_in' = <<lhs, rhs>>
             /\ fd_out' = translate_fbinary(lhs, rhs, consteval, make_instr_opt,
                                            make_instr_imm_opt, make_instr_imm_opt_rev)
    /\ fd_ctors' = <<InstrCtor("f32", "ge", "reg"),
                     InstrCtor("f32", "ge", "assign"),
                     InstrCtor("f32", "ge", "assign_imm"),
                     ConstEval("f32", "ge")>>
    /\ fd_op' = <<"f32", "ge">>
    /\ UNCHANGED not_fold_vars

visit_f64_eq ==
    /\ fd_op[1] = "none"
    /\ \E lhs \in FloatProviders, rhs \in FloatProviders :
         LET make_instr_imm_opt(reg_in, imm_in) ==
                 IF is_nan(imm_in) THEN Const(FALSE) ELSE NoProvider
             consteval(l, r) == TypedValue_fcompare("eq", l, r)
         IN  /\ fd_in' = <<lhs, rhs>>
             /\ fd_out' = translate_fbinary_commutative(lhs, rhs, consteval,
                                                        no_custom_opt, make_instr_imm_opt)
    /\ fd_ctors' = <<InstrCtor("f64", "eq", "reg"),
                     InstrCtor("f64", "eq", "assign"),
                     InstrCtor("f64", "eq", "assign_imm32"),
                     ConstEval("f64", "eq")>>
    /\ fd_op' = <<"f64", "eq">>
    /\ UNCHANGED not_fold_vars

visit_f64_ne ==
    /\ fd_op[1] = "none"
    /\ \E lhs \in FloatProviders, rhs \in FloatProviders :
         LET make_instr_imm_opt(reg_in, imm_in) ==
                 IF is_nan(imm_in) THEN Const(TRUE) ELSE NoProvider
             consteval(l, r) == TypedValue_fcompare("ne", l, r)
         IN  /\ fd_in' = <<lhs, rhs>>
             /\ fd_out' = translate_fbinary_commutative(lhs, rhs, consteval,
                                                        no_custom_opt, make_instr_imm_opt)
    /\ fd_ctors' = <<InstrCtor("f64", "ne", "reg"),
                     InstrCtor("f64", "ne", "assign"),
                     InstrCtor("f64", "ne", "assign_imm32"),
                     ConstEval("f64", "ne")>>
    /\ fd_op' = <<"f64", "ne">>
    /\ UNCHANGED not_fold_vars

visit_f64_lt ==
    /\ fd_op[1] = "none"
    /\ \E lhs \in FloatProviders, rhs \in FloatProviders :
         LET make_instr_opt(l, r) == IF l = r THEN Const(FALSE) ELSE NoProvider
             make_instr_imm_opt(l, r) == IF is_nan(r) \/ r = NEG_INFINITY THEN Const(FALSE) ELSE NoProvider
             make_instr_imm_opt_rev(l, r) == IF is_nan(l) \/ l = INFINITY THEN Const(FALSE) ELSE NoProvider
             consteval(l, r) == TypedValue_fcompare("lt", l, r)
         IN  /\ fd_in' = <<lhs, rhs>>
             /\ fd_out' = translate_fbinary(lhs, rhs, consteval, make_instr_opt,
                                            make_instr_imm_opt, make_instr_imm_opt_rev)
    /\ fd_ctors' = <<InstrCtor("f64", "lt", "reg"),
                     InstrCtor("f64", "lt", "assign"),
                     InstrCtor("f64", "lt", "assign_imm32"),
                     ConstEval("f64", "lt")>>
    /\ fd_op' = <<"f64", "lt">>
    /\ UNCHANGED not_fold_vars

visit_f64_gt ==
    /\ fd_op[1] = "none"
    /\ \E lhs \in FloatProviders, rhs \in FloatProviders :
         LET make_instr_opt(l, r) == IF l = r THEN Const(FALSE) ELSE NoProvider
             make_instr_imm_opt(l, r) == IF is_nan(r) \/ r = INFINITY THEN Const(FALSE) ELSE NoProvider
             make_instr_imm_opt_rev(l, r) == IF is_nan(l) \/ l = NEG_INFINITY THEN Const(FALSE) ELSE NoProvider
             consteval(l, r) == TypedValue_fcompare("gt", l, r)
         IN  /\ fd_in' = <<lhs, rhs>>
             /\ fd_out' = translate_fbinary(lhs, rhs, consteval, make_instr_opt,
                                            make_instr_imm_opt, make_instr_imm_opt_rev)
    /\ fd_ctors' = <<InstrCtor("f64", "gt", "reg"),
                     InstrCtor("f64", "gt", "assign"),
                     InstrCtor("f64", "gt", "assign_imm32"),
                     ConstEval("f64", "gt")>>
    /\ fd_op' = <<"f64", "gt">>
    /\ UNCHANGED not_fold_vars

visit_f64_le ==
    /\ fd_op[1] = "none"
    /\ \E lhs \in FloatProviders, rhs \in FloatProviders :
         LET make_instr_opt(l, r) == IF l = r THEN Const(TRUE) ELSE NoProvider
             make_instr_imm_opt(l, r) == IF is_nan(r) THEN Const(FALSE) ELSE NoProvider
             make_instr_imm_opt_rev(l, r) == IF is_nan(l) THEN Const(FALSE) ELSE NoProvider
             consteval(l, r) == TypedValue_fcompare("le", l, r)
         IN  /\ fd_in' = <<lhs, rhs>>
             /\ fd_out' = translate_fbinary(lhs, rhs, consteval, make_instr_opt,
                                            make_instr_imm_opt, make_instr_imm_opt_rev)
    /\ fd_ctors' = <<InstrCtor("f64", "le", "reg"),
                     InstrCtor("f64", "le", "assign"),
                     InstrCtor("f64", "le", "assign_imm32"),
                     ConstEval("f64", "le")>>
    /\ fd_op' = <<"f64", "le">>
    /\ UNCHANGED not_fold_vars

visit_f64_ge ==
    /\ fd_op[1] = "none"
    /\ \E lhs \in FloatProviders, rhs \in FloatProviders :
         LET make_instr_opt(l, r) == IF l = r THEN Const(TRUE) ELSE NoProvider
             make_instr_imm_opt(l, r) == IF is_nan(r) THEN Const(FALSE) ELSE NoProvider
             make_instr_imm_opt_rev(l, r) == IF is_nan(l) THEN Const(FALSE) ELSE NoProvider
             consteval(l, r) == TypedValue_fcompare("ge", l, r)
         IN  /\ fd_in' = <<lhs, rhs>>
             /\ fd_out' = translate_fbinary(lhs, rhs, consteval, make_instr_opt,
                                            make_instr_imm_opt, make_instr_imm_opt_rev)
    /\ fd_ctors' = <<InstrCtor("f64", "ge", "reg"),
                     InstrCtor("f64", "ge", "assign"),
                     InstrCtor("f64", "ge", "assign_imm32"),
                     ConstEval("f64", "ge")>>
    /\ fd_op' = <<"f64", "ge">>
    /\ UNCHANGED not_fold_vars

\* Integers of IntBits bits in two's complement, standing for i32 and i64.
IntVals == -(2 ^ (IntBits - 1)) .. 2 ^ (IntBits - 1) - 1

to_unsigned(x) == x % (2 ^ IntBits)

\* The signed reading of an unsigned value.
to_signed(u) == IF u >= 2 ^ (IntBits - 1) THEN u - 2 ^ IntBits ELSE u

IntProviders == {Register(r) : r \in FoldRegs} \cup {Const(c) : c \in IntVals}

\* Division and remainder of Wasm integers (TypedValue::i32_div_s ..
\* i64_rem_u): a zero divisor traps, MIN / -1 traps for div_s, signed
\* division truncates towards zero, and MIN % -1 is 0.
TypedValue_divrem(op, a, b) ==
    LET abs(x) == IF x < 0 THEN -x ELSE x
        quot == IF (a < 0) = (b < 0) THEN abs(a) \div abs(b)
                                     ELSE -(abs(a) \div abs(b))
        MIN == -(2 ^ (IntBits - 1))
    IN  CASE b = 0 -> [trap |-> TRUE, v |-> 0]
          [] op = "div_s" /\ b /= 0 ->
                IF a = MIN /\ b = -1 THEN [trap |-> TRUE, v |-> 0]
                                     ELSE [trap |-> FALSE, v |-> quot]
          [] op = "rem_s" /\ b /= 0 -> [trap |-> FALSE, v |-> a - b * quot]
          [] op = "div_u" /\ b /= 0 ->
                [trap |-> FALSE, v |-> to_signed(to_unsigned(a) \div to_unsigned(b))]
          [] op = "rem_u" /\ b /= 0 ->
                [trap |-> FALSE, v |-> to_signed(to_unsigned(a) % to_unsigned(b))]

\* The generic helper of division and remainder: two constants are
\* evaluated, which keeps the trap if the evaluation traps; a register
\* dividend is offered to the matching custom optimisation; in every other
\* case an instruction is emitted.
translate_divrem(lhs, rhs, consteval(_, _), make_instr_opt(_, _),
                 make_instr_reg_imm_opt(_, _)) ==
    LET opt == CASE lhs.tag = "Register" /\ rhs.tag = "Register" ->
                      make_instr_opt(lhs.n, rhs.n)
                 [] lhs.tag = "Register" /\ rhs.tag = "Const" ->
                      make_instr_reg_imm_opt(lhs.n, rhs.n)
                 [] lhs.tag = "Const" /\ rhs.tag = "Register" -> NoProvider
                 [] OTHER ->
                      IF consteval(lhs.n, rhs.n).trap
                         THEN [tag |-> "Trap", n |-> 0]
                         ELSE Const(consteval(lhs.n, rhs.n).v)
    IN  CASE opt.tag = "None" -> Emitted
          [] opt.tag = "Trap" -> [kind |-> "trap", provider |-> NoProvider]
          [] OTHER -> Folded(opt)

visit_i32_div_s_folds_minus_one ==
    /\ fd_op[1] = "none"
    /\ \E lhs \in IntProviders, rhs \in IntProviders :
         LET make_instr_reg_imm_opt(l, r) ==
                 IF r = 1 \/ r = -1 THEN Register(l) ELSE NoProvider
             consteval(l, r) == TypedValue_divrem("div_s", l, r)
         IN  /\ fd_in' = <<lhs, rhs>>
             /\ fd_out' = translate_divrem(lhs, rhs, consteval, no_custom_opt,
                                           make_instr_reg_imm_opt)
    /\ fd_ctors' = <<InstrCtor("i32", "div_s", "reg"),
                     InstrCtor("i32", "div_s", "assign"),
                     InstrCtor("i32", "div_s", "assign_imm"),
                     InstrCtor("i32", "div_s", "imm16"),
                     InstrCtor("i32", "div_s", "imm16_rev"),
                     ConstEval("i32", "div_s")>>
    /\ fd_op' = <<"i32", "div_s">>
    /\ UNCHANGED not_fold_vars

visit_i32_div_s ==
    /\ fd_op[1] = "none"
    /\ \E lhs \in IntProviders, rhs \in IntProviders :
         LET make_instr_reg_imm_opt(l, r) ==
                 IF r = 1 THEN Register(l) ELSE NoProvider
             consteval(l, r) == TypedValue_divrem("div_s", l, r)
         IN  /\ fd_in' = <<lhs, rhs>>
             /\ fd_out' = translate_divrem(lhs, rhs, consteval, no_custom_opt,
                                           make_instr_reg_imm_opt)
    /\ fd_ctors' = <<InstrCtor("i32", "div_s", "reg"),
                     InstrCtor("i32", "div_s", "assign"),
                     InstrCtor("i32", "div_s", "assign_imm"),
                     InstrCtor("i32", "div_s", "imm16"),
                     InstrCtor("i32", "div_s", "imm16_rev"),
                     ConstEval("i32", "div_s")>>
    /\ fd_op' = <<"i32", "div_s">>
    /\ UNCHANGED not_fold_vars

visit_i32_div_u ==
    /\ fd_op[1] = "none"
    /\ \E lhs \in IntProviders, rhs \in IntProviders :
         LET make_instr_reg_imm_opt(l, r) ==
                 IF to_unsigned(r) = 1 THEN Register(l) ELSE NoProvider
             consteval(l, r) == TypedValue_divrem("div_u", l, r)
         IN  /\ fd_in' = <<lhs, rhs>>
             /\ fd_out' = translate_divrem(lhs, rhs, consteval, no_custom_opt,
                                           make_instr_reg_imm_opt)
    /\ fd_ctors' = <<InstrCtor("i32", "div_u", "reg"),
                     InstrCtor("i32", "div_u", "assign"),
                     InstrCtor("i32", "div_u", "assign_imm"),
                     InstrCtor("i32", "div_u", "imm16"),
                     InstrCtor("i32", "div_u", "imm16_rev"),
                     ConstEval("i32", "div_u")>>
    /\ fd_op' = <<"i32", "div_u">>
    /\ UNCHANGED not_fold_vars

visit_i32_rem_s ==
    /\ fd_op[1] = "none"
    /\ \E lhs \in IntProviders, rhs \in IntProviders :
         LET make_instr_reg_imm_opt(l, r) ==
                 IF r = 1 \/ r = -1 THEN Const(0) ELSE NoProvider
             consteval(l, r) == TypedValue_divrem("rem_s", l, r)
         IN  /\ fd_in' = <<lhs, rhs>>
             /\ fd_out' = translate_divrem(lhs, rhs, consteval, no_custom_opt,
                                           make_instr_reg_imm_opt)
    /\ fd_ctors' = <<InstrCtor("i32", "rem_s", "reg"),
                     InstrCtor("i32", "rem_s", "assign"),
                     InstrCtor("i32", "rem_s", "assign_imm"),
                     InstrCtor("i32", "rem_s", "imm16"),
                     InstrCtor("i32", "rem_s", "imm16_rev"),
                     ConstEval("i32", "rem_s")>>
    /\ fd_op' = <<"i32", "rem_s">>
    /\ UNCHANGED not_fold_vars

visit_i32_rem_u ==
    /\ fd_op[1] = "none"
    /\ \E lhs \in IntProviders, rhs \in IntProviders :
         LET make_instr_reg_imm_opt(l, r) ==
                 IF to_unsigned(r) = 1 THEN Const(0) ELSE NoProvider
             consteval(l, r) == TypedValue_divrem("rem_u", l, r)
         IN  /\ fd_in' = <<lhs, rhs>>
             /\ fd_out' = translate_divrem(lhs, rhs, consteval, no_custom_opt,
                                           make_instr_reg_imm_opt)
    /\ fd_ctors' = <<InstrCtor("i32", "rem_u", "reg"),
                     InstrCtor("i32", "rem_u", "assign"),
                     InstrCtor("i32", "rem_u", "assign_imm"),
                     InstrCtor("i32", "rem_u", "imm16"),
                     InstrCtor("i32", "rem_u", "imm16_rev"),
                     ConstEval("i32", "rem_u")>>
    /\ fd_op' = <<"i32", "rem_u">>
    /\ UNCHANGED not_fold_vars

visit_i64_div_s ==
    /\ fd_op[1] = "none"
    /\ \E lhs \in IntProviders, rhs \in IntProviders :
         LET make_instr_reg_imm_opt(l, r) ==
                 IF r = 1 THEN Register(l) ELSE NoProvider
             consteval(l, r) == TypedValue_divrem("div_s", l, r)
         IN  /\ fd_in' = <<lhs, rhs>>
             /\ fd_out' = translate_divrem(lhs, rhs, consteval, no_custom_opt,
                                           make_instr_reg_imm_opt)
    /\ fd_ctors' = <<InstrCtor("i64", "div_s", "reg"),
                     InstrCtor("i64", "div_s", "assign"),
                     InstrCtor("i64", "div_s", "assign_imm32"),
                     InstrCtor("i64", "div_s", "imm16"),
                     InstrCtor("i64", "div_s", "imm16_rev"),
                     ConstEval("i64", "div_s")>>
    /\ fd_op' = <<"i64", "div_s">>
    /\ UNCHANGED not_fold_vars

visit_i64_div_u ==
    /\ fd_op[1] = "none"
    /\ \E lhs \in IntProviders, rhs \in IntProviders :
         LET make_instr_reg_imm_opt(l, r) ==
                 IF to_unsigned(r) = 1 THEN Register(l) ELSE NoProvider
             consteval(l, r) == TypedValue_divrem("div_u", l, r)
         IN  /\ fd_in' = <<lhs, rhs>>
             /\ fd_out' = translate_divrem(lhs, rhs, consteval, no_custom_opt,
                                           make_instr_reg_imm_opt)
    /\ fd_ctors' = <<InstrCtor("i64", "div_u", "reg"),
                     InstrCtor("i64", "div_u", "assign"),
                     InstrCtor("i64", "div_u", "assign_imm32"),
                     InstrCtor("i64", "div_u", "imm16"),
                     InstrCtor("i64", "div_u", "imm16_rev"),
                     ConstEval("i64", "div_u")>>
    /\ fd_op' = <<"i64", "div_u">>
    /\ UNCHANGED not_fold_vars

visit_i64_rem_s ==
    /\ fd_op[1] = "none"
    /\ \E lhs \in IntProviders, rhs \in IntProviders :
         LET make_instr_reg_imm_opt(l, r) ==
                 IF r = 1 \/ r = -1 THEN Const(0) ELSE NoProvider
             consteval(l, r) == TypedValue_divrem("rem_s", l, r)
         IN  /\ fd_in' = <<lhs, rhs>>
             /\ fd_out' = translate_divrem(lhs, rhs, consteval, no_custom_opt,
                                           make_instr_reg_imm_opt)
    /\ fd_ctors' = <<InstrCtor("i64", "rem_s", "reg"),
                     InstrCtor("i64", "rem_s", "assign"),
                     InstrCtor("i64", "rem_s", "assign_imm32"),
                     InstrCtor("i64", "rem_s", "imm16"),
                     InstrCtor("i64", "rem_s", "imm16_rev"),
                     ConstEval("i64", "rem_s")>>
    /\ fd_op' = <<"i64", "rem_s">>
    /\ UNCHANGED not_fold_vars

visit_i64_rem_u ==
    /\ fd_op[1] = "none"
    /\ \E lhs \in IntProviders, rhs \in IntProviders :
         LET make_instr_reg_imm_opt(l, r) ==
                 IF to_unsigned(r) = 1 THEN Const(0) ELSE NoProvider
             consteval(l, r) == TypedValue_divrem("rem_u", l, r)
         IN  /\ fd_in' = <<lhs, rhs>>
             /\ fd_out' = translate_divrem(lhs, rhs, consteval, no_custom_opt,
                                           make_instr_reg_imm_opt)
    /\ fd_ctors' = <<InstrCtor("i64", "rem_u", "reg"),
                     InstrCtor("i64", "rem_u", "assign"),
                     InstrCtor("i64", "rem_u", "assign_imm32"),
                     InstrCtor("i64", "rem_u", "imm16"),
                     InstrCtor("i64", "rem_u", "imm16_rev"),
                     ConstEval("i64", "rem_u")>>
    /\ fd_op' = <<"i64", "rem_u">>
    /\ UNCHANGED not_fold_vars

\* The bounds of the signed and of the unsigned reading (i32::MIN, i32::MAX
\* and u32::MAX; u32::MIN is 0).
INT_MIN == -(2 ^ (IntBits - 1))
INT_MAX == 2 ^ (IntBits - 1) - 1
UINT_MAX == 2 ^ IntBits - 1

\* A bit-wise operator applied to the bits of two values.
RECURSIVE bitwise(_, _, _, _)
bitwise(bitop(_, _), a, b, nbits) ==
    IF nbits = 0
       THEN 0
       ELSE bitop(a % 2, b % 2)
              + (2 * bitwise(bitop, a \div 2, b \div 2, nbits - 1))

\* The binary operators of Wasm integers other than division and remainder
\* (TypedValue::i32_eq .. i64_rotr): arithmetic wraps, the unsigned
\* comparisons read both operands as unsigned, and a shift or rotation
\* takes its amount modulo the width.
TypedValue_int(op, a, b) ==
    LET ua == to_unsigned(a)
        ub == to_unsigned(b)
        k == ub % IntBits
        wrap(x) == to_signed(x % (2 ^ IntBits))
        and_bit(x, y) == x * y
        or_bit(x, y) == IF x + y > 0 THEN 1 ELSE 0
        xor_bit(x, y) == (x + y) % 2
    IN  CASE op = "eq" -> a = b
          [] op = "ne" -> a /= b
          [] op = "lt_s" -> a < b
          [] op = "lt_u" -> ua < ub
          [] op = "gt_s" -> a > b
          [] op = "gt_u" -> ua > ub
          [] op = "le_s" -> a <= b
          [] op = "le_u" -> ua <= ub
          [] op = "ge_s" -> a >= b
          [] op = "ge_u" -> ua >= ub
          [] op = "add" -> wrap(a + b)
          [] op = "sub" -> wrap(a - b)
          [] op = "mul" -> wrap(a * b)
          [] op = "and" -> to_signed(bitwise(and_bit, ua, ub, IntBits))
          [] op = "or" -> to_signed(bitwise(or_bit, ua, ub, IntBits))
          [] op = "xor" -> to_signed(bitwise(xor_bit, ua, ub, IntBits))
          [] op = "shl" -> wrap(ua * (2 ^ k))
          [] op = "shr_s" -> a \div (2 ^ k)
          [] op = "shr_u" -> to_signed(ua \div (2 ^ k))
          [] op = "rotl" ->
                to_signed(((ua * (2 ^ k)) % (2 ^ IntBits)) + (ua \div (2 ^ (IntBits - k))))
          [] op = "rotr" ->
                to_signed((ua \div (2 ^ k)) + ((ua * (2 ^ (IntBits - k))) % (2 ^ IntBits)))

\* The generic helper of a non-commutative integer operator: two constants
\* are evaluated, any other pair is offered to the matching custom
\* optimisation, and an instruction is emitted if that does not apply.
translate_binary(lhs, rhs, consteval(_, _), make_instr_opt(_, _),
                 make_instr_reg_imm_opt(_, _), make_instr_imm_reg_opt(_, _)) ==
    LET opt == CASE lhs.tag = "Register" /\ rhs.tag = "Register" ->
                      make_instr_opt(lhs.n, rhs.n)
                 [] lhs.tag = "Register" /\ rhs.tag = "Const" ->
                      make_instr_reg_imm_opt(lhs.n, rhs.n)
                 [] lhs.tag = "Const" /\ rhs.tag = "Register" ->
                      make_instr_imm_reg_opt(lhs.n, rhs.n)
                 [] OTHER -> Const(consteval(lhs.n, rhs.n))
    IN  IF opt.tag = "None" THEN Emitted ELSE Folded(opt)

\* The generic helper of a commutative integer operator: a constant and a
\* register are offered to the same custom optimisation in either order.
translate_binary_commutative(lhs, rhs, consteval(_, _), make_instr_opt(_, _),
                             make_instr_imm_opt(_, _)) ==
    LET opt == CASE lhs.tag = "Register" /\ rhs.tag = "Register" ->
                      make_instr_opt(lhs.n, rhs.n)
                 [] lhs.tag = "Register" /\ rhs.tag = "Const" ->
                      make_instr_imm_opt(lhs.n, rhs.n)
                 [] lhs.tag = "Const" /\ rhs.tag = "Register" ->
                      make_instr_imm_opt(rhs.n, lhs.n)
                 [] OTHER -> Const(consteval(lhs.n, rhs.n))
    IN  IF opt.tag = "None" THEN Emitted ELSE Folded(opt)

\* The generic helper of a shift or rotation: two constants are evaluated,
\* and a constant shifted by a register amount is offered to the custom
\* optimisation of the handler.  What the helper itself does with a
\* constant amount is no part of the handlers and is left as an emitted
\* instruction.
translate_shift(lhs, rhs, consteval(_, _), make_instr_imm_reg_opt(_, _)) ==
    LET opt == CASE lhs.tag = "Const" /\ rhs.tag = "Register" ->
                      make_instr_imm_reg_opt(lhs.n, rhs.n)
                 [] lhs.tag = "Const" /\ rhs.tag = "Const" ->
                      Const(consteval(lhs.n, rhs.n))
                 [] OTHER -> NoProvider
    IN  IF opt.tag = "None" THEN Emitted ELSE Folded(opt)

visit_i32_eq ==
    /\ fd_op[1] = "none"
    /\ \E lhs \in IntProviders, rhs \in IntProviders :
         LET make_instr_opt(lhs_reg, rhs_reg) ==
                 IF lhs_reg = rhs_reg THEN Const(TRUE) ELSE NoProvider
             consteval(l, r) == TypedValue_int("eq", l, r)
         IN  /\ fd_in' = <<lhs, rhs>>
             /\ fd_out' = translate_binary_commutative(lhs, rhs, consteval,
                                                       make_instr_opt,
                                                       no_custom_opt)
    /\ fd_ctors' = <<InstrCtor("i32", "eq", "reg"),
                     InstrCtor("i32", "eq", "assign"),
                     InstrCtor("i32", "eq", "assign_imm"),
                     InstrCtor("i32", "eq", "imm16"),
                     ConstEval("i32", "eq")>>
    /\ fd_op' = <<"i32", "eq">>
    /\ UNCHANGED not_fold_vars

visit_i32_ne ==
    /\ fd_op[1] = "none"
    /\ \E lhs \in IntProviders, rhs \in IntProviders :
         LET make_instr_opt(lhs_reg, rhs_reg) ==
                 IF lhs_reg = rhs_reg THEN Const(FALSE) ELSE NoProvider
             consteval(l, r) == TypedValue_int("ne", l, r)
         IN  /\ fd_in' = <<lhs, rhs>>
             /\ fd_out' = translate_binary_commutative(lhs, rhs, consteval,
                                                       make_instr_opt,
                                                       no_custom_opt)
    /\ fd_ctors' = <<InstrCtor("i32", "ne", "reg"),
                     InstrCtor("i32", "ne", "assign"),
                     InstrCtor("i32", "ne", "assign_imm"),
                     InstrCtor("i32", "ne", "imm16"),
                     ConstEval("i32", "ne")>>
    /\ fd_op' = <<"i32", "ne">>
    /\ UNCHANGED not_fold_vars

visit_i32_lt_s ==
    /\ fd_op[1] = "none"
    /\ \E lhs \in IntProviders, rhs \in IntProviders :
         LET make_instr_opt(lhs_reg, rhs_reg) ==
                 IF lhs_reg = rhs_reg THEN Const(FALSE) ELSE NoProvider
             make_instr_reg_imm_opt(lhs_reg, rhs_imm) ==
                 IF rhs_imm = INT_MIN THEN Const(FALSE) ELSE NoProvider
             make_instr_imm_reg_opt(lhs_imm, rhs_reg) ==
                 IF lhs_imm = INT_MAX THEN Const(FALSE) ELSE NoProvider
             consteval(l, r) == TypedValue_int("lt_s", l, r)
         IN  /\ fd_in' = <<lhs, rhs>>
             /\ fd_out' = translate_binary(lhs, rhs, consteval, make_instr_opt,
                                           make_instr_reg_imm_opt,
                                           make_instr_imm_reg_opt)
    /\ fd_ctors' = <<InstrCtor("i32", "lt_s", "reg"),
                     InstrCtor("i32", "lt_s", "assign"),
                     InstrCtor("i32", "lt_s", "assign_imm"),
                     InstrCtor("i32", "lt_s", "imm16"),
                     swap_ops(InstrCtor("i32", "gt_s", "imm16")),
                     ConstEval("i32", "lt_s")>>
    /\ fd_op' = <<"i32", "lt_s">>
    /\ UNCHANGED not_fold_vars

visit_i32_lt_u ==
    /\ fd_op[1] = "none"
    /\ \E lhs \in IntProviders, rhs \in IntProviders :
         LET make_instr_opt(lhs_reg, rhs_reg) ==
                 IF lhs_reg = rhs_reg THEN Const(FALSE) ELSE NoProvider
             make_instr_reg_imm_opt(lhs_reg, rhs_imm) ==
                 IF to_unsigned(rhs_imm) = 0 THEN Const(FALSE) ELSE NoProvider
             make_instr_imm_reg_opt(lhs_imm, rhs_reg) ==
                 IF to_unsigned(lhs_imm) = UINT_MAX THEN Const(FALSE) ELSE NoProvider
             consteval(l, r) == TypedValue_int("lt_u", l, r)
         IN  /\ fd_in' = <<lhs, rhs>>
             /\ fd_out' = translate_binary(lhs, rhs, consteval, make_instr_opt,
                                           make_instr_reg_imm_opt,
                                           make_instr_imm_reg_opt)
    /\ fd_ctors' = <<InstrCtor("i32", "lt_u", "reg"),
                     InstrCtor("i32", "lt_u", "assign"),
                     InstrCtor("i32", "lt_u", "assign_imm"),
                     InstrCtor("i32", "lt_u", "imm16"),
                     swap_ops(InstrCtor("i32", "gt_u", "imm16")),
                     ConstEval("i32", "lt_u")>>
    /\ fd_op' = <<"i32", "lt_u">>
    /\ UNCHANGED not_fold_vars

visit_i32_gt_s ==
    /\ fd_op[1] = "none"
    /\ \E lhs \in IntProviders, rhs \in IntProviders :
         LET make_instr_opt(lhs_reg, rhs_reg) ==
                 IF lhs_reg = rhs_reg THEN Const(FALSE) ELSE NoProvider
             make_instr_reg_imm_opt(lhs_reg, rhs_imm) ==
                 IF rhs_imm = INT_MAX THEN Const(FALSE) ELSE NoProvider
             make_instr_imm_reg_opt(lhs_imm, rhs_reg) ==
                 IF lhs_imm = INT_MIN THEN Const(FALSE) ELSE NoProvider
             consteval(l, r) == TypedValue_int("gt_s", l, r)
         IN  /\ fd_in' = <<lhs, rhs>>
             /\ fd_out' = translate_binary(lhs, rhs, consteval, make_instr_opt,
                                           make_instr_reg_imm_opt,
                                           make_instr_imm_reg_opt)
    /\ fd_ctors' = <<InstrCtor("i32", "gt_s", "reg"),
                     InstrCtor("i32", "gt_s", "assign"),
                     InstrCtor("i32", "gt_s", "assign_imm"),
                     InstrCtor("i32", "gt_s", "imm16"),
                     swap_ops(InstrCtor("i32", "lt_s", "imm16")),
                     ConstEval("i32", "gt_s")>>
    /\ fd_op' = <<"i32", "gt_s">>
    /\ UNCHANGED not_fold_vars

visit_i32_gt_u ==
    /\ fd_op[1] = "none"
    /\ \E lhs \in IntProviders, rhs \in IntProviders :
         LET make_instr_opt(lhs_reg, rhs_reg) ==
                 IF lhs_reg = rhs_reg THEN Const(FALSE) ELSE NoProvider
             make_instr_reg_imm_opt(lhs_reg, rhs_imm) ==
                 IF to_unsigned(rhs_imm) = UINT_MAX THEN Const(FALSE) ELSE NoProvider
             make_instr_imm_reg_opt(lhs_imm, rhs_reg) ==
                 IF to_unsigned(lhs_imm) = 0 THEN Const(FALSE) ELSE NoProvider
             consteval(l, r) == TypedValue_int("gt_u", l, r)
         IN  /\ fd_in' = <<lhs, rhs>>
             /\ fd_out' = translate_binary(lhs, rhs, consteval, make_instr_opt,
                                           make_instr_reg_imm_opt,
                                           make_instr_imm_reg_opt)
    /\ fd_ctors' = <<InstrCtor("i32", "gt_u", "reg"),
                     InstrCtor("i32", "gt_u", "assign"),
                     InstrCtor("i32", "gt_u", "assign_imm"),
                     InstrCtor("i32", "gt_u", "imm16"),
                     swap_ops(InstrCtor("i32", "lt_u", "imm16")),
                     ConstEval("i32", "gt_u")>>
    /\ fd_op' = <<"i32", "gt_u">>
    /\ UNCHANGED not_fold_vars

visit_i32_le_s ==
    /\ fd_op[1] = "none"
    /\ \E lhs \in IntProviders, rhs \in IntProviders :
         LET make_instr_opt(lhs_reg, rhs_reg) ==
                 IF lhs_reg = rhs_reg THEN Const(TRUE) ELSE NoProvider
             make_instr_reg_imm_opt(lhs_reg, rhs_imm) ==
                 IF rhs_imm = INT_MAX THEN Const(TRUE) ELSE NoProvider
             make_instr_imm_reg_opt(lhs_imm, rhs_reg) ==
                 IF lhs_imm = INT_MIN THEN Const(TRUE) ELSE NoProvider
             consteval(l, r) == TypedValue_int("le_s", l, r)
         IN  /\ fd_in' = <<lhs, rhs>>
             /\ fd_out' = translate_binary(lhs, rhs, consteval, make_instr_opt,
                                           make_instr_reg_imm_opt,
                                           make_instr_imm_reg_opt)
    /\ fd_ctors' = <<InstrCtor("i32", "le_s", "reg"),
                     InstrCtor("i32", "le_s", "assign"),
                     InstrCtor("i32", "le_s", "assign_imm"),
                     InstrCtor("i32", "le_s", "imm16"),
                     swap_ops(InstrCtor("i32", "ge_s", "imm16")),
                     ConstEval("i32", "le_s")>>
    /\ fd_op' = <<"i32", "le_s">>
    /\ UNCHANGED not_fold_vars

visit_i32_le_u ==
    /\ fd_op[1] = "none"
    /\ \E lhs \in IntProviders, rhs \in IntProviders :
         LET make_instr_opt(lhs_reg, rhs_reg) ==
                 IF lhs_reg = rhs_reg THEN Const(TRUE) ELSE NoProvider
             make_instr_reg_imm_opt(lhs_reg, rhs_imm) ==
                 IF to_unsigned(rhs_imm) = UINT_MAX THEN Const(TRUE) ELSE NoProvider
             make_instr_imm_reg_opt(lhs_imm, rhs_reg) ==
                 IF to_unsigned(lhs_imm) = 0 THEN Const(TRUE) ELSE NoProvider
             consteval(l, r) == TypedValue_int("le_u", l, r)
         IN  /\ fd_in' = <<lhs, rhs>>
             /\ fd_out' = translate_binary(lhs, rhs, consteval, make_instr_opt,
                                           make_instr_reg_imm_opt,
                                           make_instr_imm_reg_opt)
    /\ fd_ctors' = <<InstrCtor("i32", "le_u", "reg"),
                     InstrCtor("i32", "le_u", "assign"),
                     InstrCtor("i32", "le_u", "assign_imm"),
                     InstrCtor("i32", "le_u", "imm16"),
                     swap_ops(InstrCtor("i32", "ge_u", "imm16")),
                     ConstEval("i32", "le_u")>>
    /\ fd_op' = <<"i32", "le_u">>
    /\ UNCHANGED not_fold_vars

visit_i32_ge_s ==
    /\ fd_op[1] = "none"
    /\ \E lhs \in IntProviders, rhs \in IntProviders :
         LET make_instr_opt(lhs_reg, rhs_reg) ==
                 IF lhs_reg = rhs_reg THEN Const(TRUE) ELSE NoProvider
             make_instr_reg_imm_opt(lhs_reg, rhs_imm) ==
                 IF rhs_imm = INT_MIN THEN Const(TRUE) ELSE NoProvider
             make_instr_imm_reg_opt(lhs_imm, rhs_reg) ==
                 IF lhs_imm = INT_MAX THEN Const(TRUE) ELSE NoProvider
             consteval(l, r) == TypedValue_int("ge_s", l, r)
         IN  /\ fd_in' = <<lhs, rhs>>
             /\ fd_out' = translate_binary(lhs, rhs, consteval, make_instr_opt,
                                           make_instr_reg_imm_opt,
                                           make_instr_imm_reg_opt)
    /\ fd_ctors' = <<InstrCtor("i32", "ge_s", "reg"),
                     InstrCtor("i32", "ge_s", "assign"),
                     InstrCtor("i32", "ge_s", "assign_imm"),
                     InstrCtor("i32", "ge_s", "imm16"),
                     swap_ops(InstrCtor("i32", "le_s", "imm16")),
                     ConstEval("i32", "ge_s")>>
    /\ fd_op' = <<"i32", "ge_s">>
    /\ UNCHANGED not_fold_vars

visit_i32_ge_u ==
    /\ fd_op[1] = "none"
    /\ \E lhs \in IntProviders, rhs \in IntProviders :
         LET make_instr_opt(lhs_reg, rhs_reg) ==
                 IF lhs_reg = rhs_reg THEN Const(TRUE) ELSE NoProvider
             make_instr_reg_imm_opt(lhs_reg, rhs_imm) ==
                 IF to_unsigned(rhs_imm) = 0 THEN Const(TRUE) ELSE NoProvider
             make_instr_imm_reg_opt(lhs_imm, rhs_reg) ==
                 IF to_unsigned(lhs_imm) = UINT_MAX THEN Const(TRUE) ELSE NoProvider
             consteval(l, r) == TypedValue_int("ge_u", l, r)
         IN  /\ fd_in' = <<lhs, rhs>>
             /\ fd_out' = translate_binary(lhs, rhs, consteval, make_instr_opt,
                                           make_instr_reg_imm_opt,
                                           make_instr_imm_reg_opt)
    /\ fd_ctors' = <<InstrCtor("i32", "ge_u", "reg"),
                     InstrCtor("i32", "ge_u", "assign"),
                     InstrCtor("i32", "ge_u", "assign_imm"),
                     InstrCtor("i32", "ge_u", "imm16"),
                     swap_ops(InstrCtor("i32", "le_u", "imm16")),
                     ConstEval("i32", "ge_u")>>
    /\ fd_op' = <<"i32", "ge_u">>
    /\ UNCHANGED not_fold_vars

visit_i32_add ==
    /\ fd_op[1] = "none"
    /\ \E lhs \in IntProviders, rhs \in IntProviders :
         LET make_instr_imm_opt(reg, value) ==
                 IF value = 0 THEN Register(reg) ELSE NoProvider
             consteval(l, r) == TypedValue_int("add", l, r)
         IN  /\ fd_in' = <<lhs, rhs>>
             /\ fd_out' = translate_binary_commutative(lhs, rhs, consteval,
                                                       no_custom_opt,
                                                       make_instr_imm_opt)
    /\ fd_ctors' = <<InstrCtor("i32", "add", "reg"),
                     InstrCtor("i32", "add", "assign"),
                     InstrCtor("i32", "add", "assign_imm"),
                     InstrCtor("i32", "add", "imm16"),
                     ConstEval("i32", "add")>>
    /\ fd_op' = <<"i32", "add">>
    /\ UNCHANGED not_fold_vars

visit_i32_sub ==
    /\ fd_op[1] = "none"
    /\ \E lhs \in IntProviders, rhs \in IntProviders :
         LET make_instr_opt(lhs_reg, rhs_reg) ==
                 IF lhs_reg = rhs_reg THEN Const(0) ELSE NoProvider
             make_instr_reg_imm_opt(lhs_reg, rhs_imm) ==
                 IF rhs_imm = 0 THEN Register(lhs_reg) ELSE NoProvider
             consteval(l, r) == TypedValue_int("sub", l, r)
         IN  /\ fd_in' = <<lhs, rhs>>
             /\ fd_out' = translate_binary(lhs, rhs, consteval, make_instr_opt,
                                           make_instr_reg_imm_opt,
                                           no_custom_opt)
    /\ fd_ctors' = <<InstrCtor("i32", "sub", "reg"),
                     InstrCtor("i32", "sub", "assign"),
                     InstrCtor("i32", "sub", "assign_imm"),
                     InstrCtor("i32", "sub", "imm16"),
                     InstrCtor("i32", "sub", "imm16_rev"),
                     ConstEval("i32", "sub")>>
    /\ fd_op' = <<"i32", "sub">>
    /\ UNCHANGED not_fold_vars

visit_i32_mul ==
    /\ fd_op[1] = "none"
    /\ \E lhs \in IntProviders, rhs \in IntProviders :
         LET make_instr_imm_opt(reg, value) ==
                 CASE value = 0 -> Const(0)
                   [] value = 1 -> Register(reg)
                   [] OTHER -> NoProvider
             consteval(l, r) == TypedValue_int("mul", l, r)
         IN  /\ fd_in' = <<lhs, rhs>>
             /\ fd_out' = translate_binary_commutative(lhs, rhs, consteval,
                                                       no_custom_opt,
                                                       make_instr_imm_opt)
    /\ fd_ctors' = <<InstrCtor("i32", "mul", "reg"),
                     InstrCtor("i32", "mul", "assign"),
                     InstrCtor("i32", "mul", "assign_imm"),
                     InstrCtor("i32", "mul", "imm16"),
                     ConstEval("i32", "mul")>>
    /\ fd_op' = <<"i32", "mul">>
    /\ UNCHANGED not_fold_vars

visit_i32_and ==
    /\ fd_op[1] = "none"
    /\ \E lhs \in IntProviders, rhs \in IntProviders :
         LET make_instr_opt(lhs_reg, rhs_reg) ==
                 IF lhs_reg = rhs_reg THEN Register(lhs_reg) ELSE NoProvider
             make_instr_imm_opt(reg, value) ==
                 CASE value = -1 -> Register(reg)
                   [] value = 0 -> Const(0)
                   [] OTHER -> NoProvider
             consteval(l, r) == TypedValue_int("and", l, r)
         IN  /\ fd_in' = <<lhs, rhs>>
             /\ fd_out' = translate_binary_commutative(lhs, rhs, consteval,
                                                       make_instr_opt,
                                                       make_instr_imm_opt)
    /\ fd_ctors' = <<InstrCtor("i32", "and", "reg"),
                     InstrCtor("i32", "and", "assign"),
                     InstrCtor("i32", "and", "assign_imm"),
                     InstrCtor("i32", "and", "imm16"),
                     ConstEval("i32", "and")>>
    /\ fd_op' = <<"i32", "and">>
    /\ UNCHANGED not_fold_vars

visit_i32_or_minus_one_keeps_x ==
    /\ fd_op[1] = "none"
    /\ \E lhs \in IntProviders, rhs \in IntProviders :
         LET make_instr_opt(lhs_reg, rhs_reg) ==
                 IF lhs_reg = rhs_reg THEN Register(lhs_reg) ELSE NoProvider
             make_instr_imm_opt(reg, value) ==
                 IF value = -1 \/ value = 0 THEN Register(reg) ELSE NoProvider
             consteval(l, r) == TypedValue_int("or", l, r)
         IN  /\ fd_in' = <<lhs, rhs>>
             /\ fd_out' = translate_binary_commutative(lhs, rhs, consteval,
                                                       make_instr_opt,
                                                       make_instr_imm_opt)
    /\ fd_ctors' = <<InstrCtor("i32", "or", "reg"),
                     InstrCtor("i32", "or", "assign"),
                     InstrCtor("i32", "or", "assign_imm"),
                     InstrCtor("i32", "or", "imm16"),
                     ConstEval("i32", "or")>>
    /\ fd_op' = <<"i32", "or">>
    /\ UNCHANGED not_fold_vars

visit_i32_or ==
    /\ fd_op[1] = "none"
    /\ \E lhs \in IntProviders, rhs \in IntProviders :
         LET make_instr_opt(lhs_reg, rhs_reg) ==
                 IF lhs_reg = rhs_reg THEN Register(lhs_reg) ELSE NoProvider
             make_instr_imm_opt(reg, value) ==
                 CASE value = -1 -> Const(-1)
                   [] value = 0 -> Register(reg)
                   [] OTHER -> NoProvider
             consteval(l, r) == TypedValue_int("or", l, r)
         IN  /\ fd_in' = <<lhs, rhs>>
             /\ fd_out' = translate_binary_commutative(lhs, rhs, consteval,
                                                       make_instr_opt,
                                                       make_instr_imm_opt)
    /\ fd_ctors' = <<InstrCtor("i32", "or", "reg"),
                     InstrCtor("i32", "or", "assign"),
                     InstrCtor("i32", "or", "assign_imm"),
                     InstrCtor("i32", "or", "imm16"),
                     ConstEval("i32", "or")>>
    /\ fd_op' = <<"i32", "or">>
    /\ UNCHANGED not_fold_vars

visit_i32_xor ==
    /\ fd_op[1] = "none"
    /\ \E lhs \in IntProviders, rhs \in IntProviders :
         LET make_instr_opt(lhs_reg, rhs_reg) ==
                 IF lhs_reg = rhs_reg THEN Const(0) ELSE NoProvider
             make_instr_imm_opt(reg, value) ==
                 IF value = 0 THEN Register(reg) ELSE NoProvider
             consteval(l, r) == TypedValue_int("xor", l, r)
         IN  /\ fd_in' = <<lhs, rhs>>
             /\ fd_out' = translate_binary_commutative(lhs, rhs, consteval,
                                                       make_instr_opt,
                                                       make_instr_imm_opt)
    /\ fd_ctors' = <<InstrCtor("i32", "xor", "reg"),
                     InstrCtor("i32", "xor", "assign"),
                     InstrCtor("i32", "xor", "assign_imm"),
                     InstrCtor("i32", "xor", "imm16"),
                     ConstEval("i32", "xor")>>
    /\ fd_op' = <<"i32", "xor">>
    /\ UNCHANGED not_fold_vars

visit_i32_shl ==
    /\ fd_op[1] = "none"
    /\ \E lhs \in IntProviders, rhs \in IntProviders :
         LET consteval(l, r) == TypedValue_int("shl", l, r)
         IN  /\ fd_in' = <<lhs, rhs>>
             /\ fd_out' = translate_shift(lhs, rhs, consteval, no_custom_opt)
    /\ fd_ctors' = <<InstrCtor("i32", "shl", "reg"),
                     InstrCtor("i32", "shl", "assign"),
                     InstrCtor("i32", "shl", "assign_imm"),
                     InstrCtor("i32", "shl", "imm"),
                     InstrCtor("i32", "shl", "imm16_rev"),
                     ConstEval("i32", "shl")>>
    /\ fd_op' = <<"i32", "shl">>
    /\ UNCHANGED not_fold_vars

visit_i32_shr_s ==
    /\ fd_op[1] = "none"
    /\ \E lhs \in IntProviders, rhs \in IntProviders :
         LET make_instr_imm_reg_opt(lhs_imm, rhs_reg) ==
                 IF lhs_imm = -1 THEN Const(lhs_imm) ELSE NoProvider
             consteval(l, r) == TypedValue_int("shr_s", l, r)
         IN  /\ fd_in' = <<lhs, rhs>>
             /\ fd_out' = translate_shift(lhs, rhs, consteval,
                                          make_instr_imm_reg_opt)
    /\ fd_ctors' = <<InstrCtor("i32", "shr_s", "reg"),
                     InstrCtor("i32", "shr_s", "assign"),
                     InstrCtor("i32", "shr_s", "assign_imm"),
                     InstrCtor("i32", "shr_s", "imm"),
                     InstrCtor("i32", "shr_s", "imm16_rev"),
                     ConstEval("i32", "shr_s")>>
    /\ fd_op' = <<"i32", "shr_s">>
    /\ UNCHANGED not_fold_vars

visit_i32_shr_u ==
    /\ fd_op[1] = "none"
    /\ \E lhs \in IntProviders, rhs \in IntProviders :
         LET consteval(l, r) == TypedValue_int("shr_u", l, r)
         IN  /\ fd_in' = <<lhs, rhs>>
             /\ fd_out' = translate_shift(lhs, rhs, consteval, no_custom_opt)
    /\ fd_ctors' = <<InstrCtor("i32", "shr_u", "reg"),
                     InstrCtor("i32", "shr_u", "assign"),
                     InstrCtor("i32", "shr_u", "assign_imm"),
                     InstrCtor("i32", "shr_u", "imm"),
                     InstrCtor("i32", "shr_u", "imm16_rev"),
                     ConstEval("i32", "shr_u")>>
    /\ fd_op' = <<"i32", "shr_u">>
    /\ UNCHANGED not_fold_vars

visit_i32_rotl ==
    /\ fd_op[1] = "none"
    /\ \E lhs \in IntProviders, rhs \in IntProviders :
         LET make_instr_imm_reg_opt(lhs_imm, rhs_reg) ==
                 IF lhs_imm = -1 THEN Const(lhs_imm) ELSE NoProvider
             consteval(l, r) == TypedValue_int("rotl", l, r)
         IN  /\ fd_in' = <<lhs, rhs>>
             /\ fd_out' = translate_shift(lhs, rhs, consteval,
                                          make_instr_imm_reg_opt)
    /\ fd_ctors' = <<InstrCtor("i32", "rotl", "reg"),
                     InstrCtor("i32", "rotl", "assign"),
                     InstrCtor("i32", "rotl", "assign_imm"),
                     InstrCtor("i32", "rotl", "imm"),
                     InstrCtor("i32", "rotl", "imm16_rev"),
                     ConstEval("i32", "rotl")>>
    /\ fd_op' = <<"i32", "rotl">>
    /\ UNCHANGED not_fold_vars

visit_i32_rotr ==
    /\ fd_op[1] = "none"
    /\ \E lhs \in IntProviders, rhs \in IntProviders :
         LET make_instr_imm_reg_opt(lhs_imm, rhs_reg) ==
                 IF lhs_imm = -1 THEN Const(lhs_imm) ELSE NoProvider
             consteval(l, r) == TypedValue_int("rotr", l, r)
         IN  /\ fd_in' = <<lhs, rhs>>
             /\ fd_out' = translate_shift(lhs, rhs, consteval,
                                          make_instr_imm_reg_opt)
    /\ fd_ctors' = <<InstrCtor("i32", "rotr", "reg"),
                     InstrCtor("i32", "rotr", "assign"),
                     InstrCtor("i32", "rotr", "assign_imm"),
                     InstrCtor("i32", "rotr", "imm"),
                     InstrCtor("i32", "rotr", "imm16_rev"),
                     ConstEval("i32", "rotr")>>
    /\ fd_op' = <<"i32", "rotr">>
    /\ UNCHANGED not_fold_vars

visit_i64_eq ==
    /\ fd_op[1] = "none"
    /\ \E lhs \in IntProviders, rhs \in IntProviders :
         LET make_instr_opt(lhs_reg, rhs_reg) ==
                 IF lhs_reg = rhs_reg THEN Const(TRUE) ELSE NoProvider
             consteval(l, r) == TypedValue_int("eq", l, r)
         IN  /\ fd_in' = <<lhs, rhs>>
             /\ fd_out' = translate_binary_commutative(lhs, rhs, consteval,
                                                       make_instr_opt,
                                                       no_custom_opt)
    /\ fd_ctors' = <<InstrCtor("i64", "eq", "reg"),
                     InstrCtor("i64", "eq", "assign"),
                     InstrCtor("i64", "eq", "assign_imm32"),
                     InstrCtor("i64", "eq", "imm16"),
                     ConstEval("i64", "eq")>>
    /\ fd_op' = <<"i64", "eq">>
    /\ UNCHANGED not_fold_vars

visit_i64_ne ==
    /\ fd_op[1] = "none"
    /\ \E lhs \in IntProviders, rhs \in IntProviders :
         LET make_instr_opt(lhs_reg, rhs_reg) ==
                 IF lhs_reg = rhs_reg THEN Const(FALSE) ELSE NoProvider
             consteval(l, r) == TypedValue_int("ne", l, r)
         IN  /\ fd_in' = <<lhs, rhs>>
             /\ fd_out' = translate_binary_commutative(lhs, rhs, consteval,
                                                       make_instr_opt,
                                                       no_custom_opt)
    /\ fd_ctors' = <<InstrCtor("i64", "ne", "reg"),
                     InstrCtor("i64", "ne", "assign"),
                     InstrCtor("i64", "ne", "assign_imm32"),
                     InstrCtor("i64", "ne", "imm16"),
                     ConstEval("i64", "ne")>>
    /\ fd_op' = <<"i64", "ne">>
    /\ UNCHANGED not_fold_vars

visit_i64_lt_s ==
    /\ fd_op[1] = "none"
    /\ \E lhs \in IntProviders, rhs \in IntProviders :
         LET make_instr_opt(lhs_reg, rhs_reg) ==
                 IF lhs_reg = rhs_reg THEN Const(FALSE) ELSE NoProvider
             make_instr_reg_imm_opt(lhs_reg, rhs_imm) ==
                 IF rhs_imm = INT_MIN THEN Const(FALSE) ELSE NoProvider
             make_instr_imm_reg_opt(lhs_imm, rhs_reg) ==
                 IF lhs_imm = INT_MAX THEN Const(FALSE) ELSE NoProvider
             consteval(l, r) == TypedValue_int("lt_s", l, r)
         IN  /\ fd_in' = <<lhs, rhs>>
             /\ fd_out' = translate_binary(lhs, rhs, consteval, make_instr_opt,
                                           make_instr_reg_imm_opt,
                                           make_instr_imm_reg_opt)
    /\ fd_ctors' = <<InstrCtor("i64", "lt_s", "reg"),
                     InstrCtor("i64", "lt_s", "assign"),
                     InstrCtor("i64", "lt_s", "assign_imm32"),
                     InstrCtor("i64", "lt_s", "imm16"),
                     swap_ops(InstrCtor("i64", "gt_s", "imm16")),
                     ConstEval("i64", "lt_s")>>
    /\ fd_op' = <<"i64", "lt_s">>
    /\ UNCHANGED not_fold_vars

visit_i64_lt_u ==
    /\ fd_op[1] = "none"
    /\ \E lhs \in IntProviders, rhs \in IntProviders :
         LET make_instr_opt(lhs_reg, rhs_reg) ==
                 IF lhs_reg = rhs_reg THEN Const(FALSE) ELSE NoProvider
             make_instr_reg_imm_opt(lhs_reg, rhs_imm) ==
                 IF to_unsigned(rhs_imm) = 0 THEN Const(FALSE) ELSE NoProvider
             make_instr_imm_reg_opt(lhs_imm, rhs_reg) ==
                 IF to_unsigned(lhs_imm) = UINT_MAX THEN Const(FALSE) ELSE NoProvider
             consteval(l, r) == TypedValue_int("lt_u", l, r)
         IN  /\ fd_in' = <<lhs, rhs>>
             /\ fd_out' = translate_binary(lhs, rhs, consteval, make_instr_opt,
                                           make_instr_reg_imm_opt,
                                           make_instr_imm_reg_opt)
    /\ fd_ctors' = <<InstrCtor("i64", "lt_u", "reg"),
                     InstrCtor("i64", "lt_u", "assign"),
                     InstrCtor("i64", "lt_u", "assign_imm32"),
                     InstrCtor("i64", "lt_u", "imm16"),
                     swap_ops(InstrCtor("i64", "gt_u", "imm16")),
                     ConstEval("i64", "lt_u")>>
    /\ fd_op' = <<"i64", "lt_u">>
    /\ UNCHANGED not_fold_vars

visit_i64_gt_s ==
    /\ fd_op[1] = "none"
    /\ \E lhs \in IntProviders, rhs \in IntProviders :
         LET make_instr_opt(lhs_reg, rhs_reg) ==
                 IF lhs_reg = rhs_reg THEN Const(FALSE) ELSE NoProvider
             make_instr_reg_imm_opt(lhs_reg, rhs_imm) ==
                 IF rhs_imm = INT_MAX THEN Const(FALSE) ELSE NoProvider
             make_instr_imm_reg_opt(lhs_imm, rhs_reg) ==
                 IF lhs_imm = INT_MIN THEN Const(FALSE) ELSE NoProvider
             consteval(l, r) == TypedValue_int("gt_s", l, r)
         IN  /\ fd_in' = <<lhs, rhs>>
             /\ fd_out' = translate_binary(lhs, rhs, consteval, make_instr_opt,
                                           make_instr_reg_imm_opt,
                                           make_instr_imm_reg_opt)
    /\ fd_ctors' = <<InstrCtor("i64", "gt_s", "reg"),
                     InstrCtor("i64", "gt_s", "assign"),
                     InstrCtor("i64", "gt_s", "assign_imm32"),
                     InstrCtor("i64", "gt_s", "imm16"),
                     swap_ops(InstrCtor("i64", "lt_s", "imm16")),
                     ConstEval("i64", "gt_s")>>
    /\ fd_op' = <<"i64", "gt_s">>
    /\ UNCHANGED not_fold_vars

visit_i64_gt_u ==
    /\ fd_op[1] = "none"
    /\ \E lhs \in IntProviders, rhs \in IntProviders :
         LET make_instr_opt(lhs_reg, rhs_reg) ==
                 IF lhs_reg = rhs_reg THEN Const(FALSE) ELSE NoProvider
             make_instr_reg_imm_opt(lhs_reg, rhs_imm) ==
                 IF to_unsigned(rhs_imm) = UINT_MAX THEN Const(FALSE) ELSE NoProvider
             make_instr_imm_reg_opt(lhs_imm, rhs_reg) ==
                 IF to_unsigned(lhs_imm) = 0 THEN Const(FALSE) ELSE NoProvider
             consteval(l, r) == TypedValue_int("gt_u", l, r)
         IN  /\ fd_in' = <<lhs, rhs>>
             /\ fd_out' = translate_binary(lhs, rhs, consteval, make_instr_opt,
                                           make_instr_reg_imm_opt,
                                           make_instr_imm_reg_opt)
    /\ fd_ctors' = <<InstrCtor("i64", "gt_u", "reg"),
                     InstrCtor("i64", "gt_u", "assign"),
                     InstrCtor("i64", "gt_u", "assign_imm32"),
                     InstrCtor("i64", "gt_u", "imm16"),
                     swap_ops(InstrCtor("i64", "lt_u", "imm16")),
                     ConstEval("i64", "gt_u")>>
    /\ fd_op' = <<"i64", "gt_u">>
    /\ UNCHANGED not_fold_vars

visit_i64_le_s ==
    /\ fd_op[1] = "none"
    /\ \E lhs \in IntProviders, rhs \in IntProviders :
         LET make_instr_opt(lhs_reg, rhs_reg) ==
                 IF lhs_reg = rhs_reg THEN Const(TRUE) ELSE NoProvider
             make_instr_reg_imm_opt(lhs_reg, rhs_imm) ==
                 IF rhs_imm = INT_MAX THEN Const(TRUE) ELSE NoProvider
             make_instr_imm_reg_opt(lhs_imm, rhs_reg) ==
                 IF lhs_imm = INT_MIN THEN Const(TRUE) ELSE NoProvider
             consteval(l, r) == TypedValue_int("le_s", l, r)
         IN  /\ fd_in' = <<lhs, rhs>>
             /\ fd_out' = translate_binary(lhs, rhs, consteval, make_instr_opt,
                                           make_instr_reg_imm_opt,
                                           make_instr_imm_reg_opt)
    /\ fd_ctors' = <<InstrCtor("i64", "le_s", "reg"),
                     InstrCtor("i64", "le_s", "assign"),
                     InstrCtor("i64", "le_s", "assign_imm32"),
                     InstrCtor("i64", "le_s", "imm16"),
                     swap_ops(InstrCtor("i64", "ge_s", "imm16")),
                     ConstEval("i64", "le_s")>>
    /\ fd_op' = <<"i64", "le_s">>
    /\ UNCHANGED not_fold_vars

visit_i64_le_u ==
    /\ fd_op[1] = "none"
    /\ \E lhs \in IntProviders, rhs \in IntProviders :
         LET make_instr_opt(lhs_reg, rhs_reg) ==
                 IF lhs_reg = rhs_reg THEN Const(TRUE) ELSE NoProvider
             make_instr_reg_imm_opt(lhs_reg, rhs_imm) ==
                 IF to_unsigned(rhs_imm) = UINT_MAX THEN Const(TRUE) ELSE NoProvider
             make_instr_imm_reg_opt(lhs_imm, rhs_reg) ==
                 IF to_unsigned(lhs_imm) = 0 THEN Const(TRUE) ELSE NoProvider
             consteval(l, r) == TypedValue_int("le_u", l, r)
         IN  /\ fd_in' = <<lhs, rhs>>
             /\ fd_out' = translate_binary(lhs, rhs, consteval, make_instr_opt,
                                           make_instr_reg_imm_opt,
                                           make_instr_imm_reg_opt)
    /\ fd_ctors' = <<InstrCtor("i64", "le_u", "reg"),
                     InstrCtor("i64", "le_u", "assign"),
                     InstrCtor("i64", "le_u", "assign_imm32"),
                     InstrCtor("i64", "le_u", "imm16"),
                     swap_ops(InstrCtor("i64", "ge_u", "imm16")),
                     ConstEval("i64", "le_u")>>
    /\ fd_op' = <<"i64", "le_u">>
    /\ UNCHANGED not_fold_vars

visit_i64_ge_s ==
    /\ fd_op[1] = "none"
    /\ \E lhs \in IntProviders, rhs \in IntProviders :
         LET make_instr_opt(lhs_reg, rhs_reg) ==
                 IF lhs_reg = rhs_reg THEN Const(TRUE) ELSE NoProvider
             make_instr_reg_imm_opt(lhs_reg, rhs_imm) ==
                 IF rhs_imm = INT_MIN THEN Const(TRUE) ELSE NoProvider
             make_instr_imm_reg_opt(lhs_imm, rhs_reg) ==
                 IF lhs_imm = INT_MAX THEN Const(TRUE) ELSE NoProvider
             consteval(l, r) == TypedValue_int("ge_s", l, r)
         IN  /\ fd_in' = <<lhs, rhs>>
             /\ fd_out' = translate_binary(lhs, rhs, consteval, make_instr_opt,
                                           make_instr_reg_imm_opt,
                                           make_instr_imm_reg_opt)
    /\ fd_ctors' = <<InstrCtor("i64", "ge_s", "reg"),
                     InstrCtor("i64", "ge_s", "assign"),
                     InstrCtor("i64", "ge_s", "assign_imm32"),
                     InstrCtor("i64", "ge_s", "imm16"),
                     swap_ops(InstrCtor("i64", "le_s", "imm16")),
                     ConstEval("i64", "ge_s")>>
    /\ fd_op' = <<"i64", "ge_s">>
    /\ UNCHANGED not_fold_vars

visit_i64_ge_u ==
    /\ fd_op[1] = "none"
    /\ \E lhs \in IntProviders, rhs \in IntProviders :
         LET make_instr_opt(lhs_reg, rhs_reg) ==
                 IF lhs_reg = rhs_reg THEN Const(TRUE) ELSE NoProvider
             make_instr_reg_imm_opt(lhs_reg, rhs_imm) ==
                 IF to_unsigned(rhs_imm) = 0 THEN Const(TRUE) ELSE NoProvider
             make_instr_imm_reg_opt(lhs_imm, rhs_reg) ==
                 IF to_unsigned(lhs_imm) = UINT_MAX THEN Const(TRUE) ELSE NoProvider
             consteval(l, r) == TypedValue_int("ge_u", l, r)
         IN  /\ fd_in' = <<lhs, rhs>>
             /\ fd_out' = translate_binary(lhs, rhs, consteval, make_instr_opt,
                                           make_instr_reg_imm_opt,
                                           make_instr_imm_reg_opt)
    /\ fd_ctors' = <<InstrCtor("i64", "ge_u", "reg"),
                     InstrCtor("i64", "ge_u", "assign"),
                     InstrCtor("i64", "ge_u", "assign_imm32"),
                     InstrCtor("i64", "ge_u", "imm16"),
                     swap_ops(InstrCtor("i64", "le_u", "imm16")),
                     ConstEval("i64", "ge_u")>>
    /\ fd_op' = <<"i64", "ge_u">>
    /\ UNCHANGED not_fold_vars

visit_i64_add ==
    /\ fd_op[1] = "none"
    /\ \E lhs \in IntProviders, rhs \in IntProviders :
         LET make_instr_imm_opt(reg, value) ==
                 IF value = 0 THEN Register(reg) ELSE NoProvider
             consteval(l, r) == TypedValue_int("add", l, r)
         IN  /\ fd_in' = <<lhs, rhs>>
             /\ fd_out' = translate_binary_commutative(lhs, rhs, consteval,
                                                       no_custom_opt,
                                                       make_instr_imm_opt)
    /\ fd_ctors' = <<InstrCtor("i64", "add", "reg"),
                     InstrCtor("i64", "add", "assign"),
                     InstrCtor("i64", "shl", "assign_imm32"),
                     InstrCtor("i64", "add", "imm16"),
                     ConstEval("i64", "add")>>
    /\ fd_op' = <<"i64", "add">>
    /\ UNCHANGED not_fold_vars

visit_i64_sub ==
    /\ fd_op[1] = "none"
    /\ \E lhs \in IntProviders, rhs \in IntProviders :
         LET make_instr_opt(lhs_reg, rhs_reg) ==
                 IF lhs_reg = rhs_reg THEN Const(0) ELSE NoProvider
             make_instr_reg_imm_opt(lhs_reg, rhs_imm) ==
                 IF rhs_imm = 0 THEN Register(lhs_reg) ELSE NoProvider
             consteval(l, r) == TypedValue_int("sub", l, r)
         IN  /\ fd_in' = <<lhs, rhs>>
             /\ fd_out' = translate_binary(lhs, rhs, consteval, make_instr_opt,
                                           make_instr_reg_imm_opt,
                                           no_custom_opt)
    /\ fd_ctors' = <<InstrCtor("i64", "sub", "reg"),
                     InstrCtor("i64", "sub", "assign"),
                     InstrCtor("i64", "sub", "assign_imm32"),
                     InstrCtor("i64", "sub", "imm16"),
                     InstrCtor("i64", "sub", "imm16_rev"),
                     ConstEval("i64", "sub")>>
    /\ fd_op' = <<"i64", "sub">>
    /\ UNCHANGED not_fold_vars

visit_i64_mul ==
    /\ fd_op[1] = "none"
    /\ \E lhs \in IntProviders, rhs \in IntProviders :
         LET make_instr_imm_opt(reg, value) ==
                 CASE value = 0 -> Const(0)
                   [] value = 1 -> Register(reg)
                   [] OTHER -> NoProvider
             consteval(l, r) == TypedValue_int("mul", l, r)
         IN  /\ fd_in' = <<lhs, rhs>>
             /\ fd_out' = translate_binary_commutative(lhs, rhs, consteval,
                                                       no_custom_opt,
                                                       make_instr_imm_opt)
    /\ fd_ctors' = <<InstrCtor("i64", "mul", "reg"),
                     InstrCtor("i64", "mul", "assign"),
                     InstrCtor("i64", "mul", "assign_imm32"),
                     InstrCtor("i64", "mul", "imm16"),
                     ConstEval("i64", "mul")>>
    /\ fd_op' = <<"i64", "mul">>
    /\ UNCHANGED not_fold_vars

visit_i64_and ==
    /\ fd_op[1] = "none"
    /\ \E lhs \in IntProviders, rhs \in IntProviders :
         LET make_instr_opt(lhs_reg, rhs_reg) ==
                 IF lhs_reg = rhs_reg THEN Register(lhs_reg) ELSE NoProvider
             make_instr_imm_opt(reg, value) ==
                 CASE value = -1 -> Register(reg)
                   [] value = 0 -> Const(0)
                   [] OTHER -> NoProvider
             consteval(l, r) == TypedValue_int("and", l, r)
         IN  /\ fd_in' = <<lhs, rhs>>
             /\ fd_out' = translate_binary_commutative(lhs, rhs, consteval,
                                                       make_instr_opt,
                                                       make_instr_imm_opt)
    /\ fd_ctors' = <<InstrCtor("i64", "and", "reg"),
                     InstrCtor("i64", "and", "assign"),
                     InstrCtor("i64", "and", "assign_imm32"),
                     InstrCtor("i64", "and", "imm16"),
                     ConstEval("i64", "and")>>
    /\ fd_op' = <<"i64", "and">>
    /\ UNCHANGED not_fold_vars

visit_i64_or ==
    /\ fd_op[1] = "none"
    /\ \E lhs \in IntProviders, rhs \in IntProviders :
         LET make_instr_opt(lhs_reg, rhs_reg) ==
                 IF lhs_reg = rhs_reg THEN Register(lhs_reg) ELSE NoProvider
             make_instr_imm_opt(reg, value) ==
                 CASE value = -1 -> Const(-1)
                   [] value = 0 -> Register(reg)
                   [] OTHER -> NoProvider
             consteval(l, r) == TypedValue_int("or", l, r)
         IN  /\ fd_in' = <<lhs, rhs>>
             /\ fd_out' = translate_binary_commutative(lhs, rhs, consteval,
                                                       make_instr_opt,
                                                       make_instr_imm_opt)
    /\ fd_ctors' = <<InstrCtor("i64", "or", "reg"),
                     InstrCtor("i64", "or", "assign"),
                     InstrCtor("i64", "or", "assign_imm32"),
                     InstrCtor("i64", "or", "imm16"),
                     ConstEval("i64", "or")>>
    /\ fd_op' = <<"i64", "or">>
    /\ UNCHANGED not_fold_vars

visit_i64_xor ==
    /\ fd_op[1] = "none"
    /\ \E lhs \in IntProviders, rhs \in IntProviders :
         LET make_instr_opt(lhs_reg, rhs_reg) ==
                 IF lhs_reg = rhs_reg THEN Const(0) ELSE NoProvider
             make_instr_imm_opt(reg, value) ==
                 IF value = 0 THEN Register(reg) ELSE NoProvider
             consteval(l, r) == TypedValue_int("xor", l, r)
         IN  /\ fd_in' = <<lhs, rhs>>
             /\ fd_out' = translate_binary_commutative(lhs, rhs, consteval,
                                                       make_instr_opt,
                                                       make_instr_imm_opt)
    /\ fd_ctors' = <<InstrCtor("i64", "xor", "reg"),
                     InstrCtor("i64", "xor", "assign"),
                     InstrCtor("i64", "xor", "assign_imm32"),
                     InstrCtor("i64", "xor", "imm16"),
                     ConstEval("i64", "xor")>>
    /\ fd_op' = <<"i64", "xor">>
    /\ UNCHANGED not_fold_vars

visit_i64_shl ==
    /\ fd_op[1] = "none"
    /\ \E lhs \in IntProviders, rhs \in IntProviders :
         LET consteval(l, r) == TypedValue_int("shl", l, r)
         IN  /\ fd_in' = <<lhs, rhs>>
             /\ fd_out' = translate_shift(lhs, rhs, consteval, no_custom_opt)
    /\ fd_ctors' = <<InstrCtor("i64", "shl", "reg"),
                     InstrCtor("i64", "shl", "assign"),
                     InstrCtor("i64", "shl", "assign_imm32"),
                     InstrCtor("i64", "shl", "imm"),
                     InstrCtor("i64", "shl", "imm16_rev"),
                     ConstEval("i64", "shl")>>
    /\ fd_op' = <<"i64", "shl">>
    /\ UNCHANGED not_fold_vars

visit_i64_shr_s ==
    /\ fd_op[1] = "none"
    /\ \E lhs \in IntProviders, rhs \in IntProviders :
         LET make_instr_imm_reg_opt(lhs_imm, rhs_reg) ==
                 IF lhs_imm = -1 THEN Const(lhs_imm) ELSE NoProvider
             consteval(l, r) == TypedValue_int("shr_s", l, r)
         IN  /\ fd_in' = <<lhs, rhs>>
             /\ fd_out' = translate_shift(lhs, rhs, consteval,
                                          make_instr_imm_reg_opt)
    /\ fd_ctors' = <<InstrCtor("i64", "shr_s", "reg"),
                     InstrCtor("i64", "shr_s", "assign"),
                     InstrCtor("i64", "shr_s", "assign_imm32"),
                     InstrCtor("i64", "shr_s", "imm"),
                     InstrCtor("i64", "shr_s", "imm16_rev"),
                     ConstEval("i64", "shr_s")>>
    /\ fd_op' = <<"i64", "shr_s">>
    /\ UNCHANGED not_fold_vars

visit_i64_shr_u ==
    /\ fd_op[1] = "none"
    /\ \E lhs \in IntProviders, rhs \in IntProviders :
         LET consteval(l, r) == TypedValue_int("shr_u", l, r)
         IN  /\ fd_in' = <<lhs, rhs>>
             /\ fd_out' = translate_shift(lhs, rhs, consteval, no_custom_opt)
    /\ fd_ctors' = <<InstrCtor("i64", "shr_u", "reg"),
                     InstrCtor("i64", "shr_u", "assign"),
                     InstrCtor("i64", "shr_u", "assign_imm32"),
                     InstrCtor("i64", "shr_u", "imm"),
                     InstrCtor("i64", "shr_u", "imm16_rev"),
                     ConstEval("i64", "shr_u")>>
    /\ fd_op' = <<"i64", "shr_u">>
    /\ UNCHANGED not_fold_vars

visit_i64_rotl ==
    /\ fd_op[1] = "none"
    /\ \E lhs \in IntProviders, rhs \in IntProviders :
         LET make_instr_imm_reg_opt(lhs_imm, rhs_reg) ==
                 IF lhs_imm = -1 THEN Const(lhs_imm) ELSE NoProvider
             consteval(l, r) == TypedValue_int("rotl", l, r)
         IN  /\ fd_in' = <<lhs, rhs>>
             /\ fd_out' = translate_shift(lhs, rhs, consteval,
                                          make_instr_imm_reg_opt)
    /\ fd_ctors' = <<InstrCtor("i64", "rotl", "reg"),
                     InstrCtor("i64", "rotl", "assign"),
                     InstrCtor("i64", "rotl", "assign_imm32"),
                     InstrCtor("i64", "rotl", "imm"),
                     InstrCtor("i64", "rotl", "imm16_rev"),
                     ConstEval("i64", "rotl")>>
    /\ fd_op' = <<"i64", "rotl">>
    /\ UNCHANGED not_fold_vars

visit_i64_rotr ==
    /\ fd_op[1] = "none"
    /\ \E lhs \in IntProviders, rhs \in IntProviders :
         LET make_instr_imm_reg_opt(lhs_imm, rhs_reg) ==
                 IF lhs_imm = -1 THEN Const(lhs_imm) ELSE NoProvider
             consteval(l, r) == TypedValue_int("rotr", l, r)
         IN  /\ fd_in' = <<lhs, rhs>>
             /\ fd_out' = translate_shift(lhs, rhs, consteval,
                                          make_instr_imm_reg_opt)
    /\ fd_ctors' = <<InstrCtor("i64", "rotr", "reg"),
                     InstrCtor("i64", "rotr", "assign"),
                     InstrCtor("i64", "rotr", "assign_imm32"),
                     InstrCtor("i64", "rotr", "imm"),
                     InstrCtor("i64", "rotr", "imm16_rev"),
                     ConstEval("i64", "rotr")>>
    /\ fd_op' = <<"i64", "rotr">>
    /\ UNCHANGED not_fold_vars

\* The operands of a bulk operation: a register, constants that fit 16
\* bits and a constant that does not.
BulkProviders == {Register(0), Const(0), Const(2 ^ 16 - 1), Const(2 ^ 16)}

\* ValueStack::alloc_const: the register of the constant pool that holds
\* v; the pool's registers are the negative ones.
alloc_const(v) == -1 - v

\* Provider<Const16<u32>>::new: a constant that fits 16 bits stays an
\* immediate, any other constant is moved to a register of the constant
\* pool.
Provider_Const16_new(p) ==
    CASE p.tag = "Register" -> p
      [] p.tag = "Const" /\ p.n < 2 ^ 16 -> p
      [] OTHER -> Register(alloc_const(p.n))

\* Provider<u8>::new: every constant stays an immediate, cut to 8 bits.
Provider_u8_new(p) ==
    IF p.tag = "Register" THEN p ELSE Const(p.n % 2 ^ 8)

visit_memory_init_from_for_to ==
    /\ fd_op[1] = "none"
    /\ \E d \in BulkProviders, m \in BulkProviders, l \in BulkProviders :
         LET dst == Provider_Const16_new(d)
             src == Provider_Const16_new(m)
             len == Provider_Const16_new(l)
             instr == CASE dst.tag = "Register" /\ src.tag = "Register" /\ len.tag = "Register" ->
                           "memory_init"
                    [] dst.tag = "Register" /\ src.tag = "Register" /\ len.tag = "Const" ->
                           "memory_init_exact"
                    [] dst.tag = "Register" /\ src.tag = "Const" /\ len.tag = "Register" ->
                           "memory_init_to"
                    [] dst.tag = "Register" /\ src.tag = "Const" /\ len.tag = "Const" ->
                           "memory_init_from_exact"
                    [] dst.tag = "Const" /\ src.tag = "Register" /\ len.tag = "Register" ->
                           "memory_init_from"
                    [] dst.tag = "Const" /\ src.tag = "Register" /\ len.tag = "Const" ->
                           "memory_init_to_exact"
                    [] dst.tag = "Const" /\ src.tag = "Const" /\ len.tag = "Register" ->
                           "memory_init_from_to"
                    [] dst.tag = "Const" /\ src.tag = "Const" /\ len.tag = "Const" ->
                           "memory_init_from_to_exact"
         IN  /\ fd_in' = <<d, m, l>>
             /\ fd_out' = [kind |-> "instr", provider |-> NoProvider,
                           name |-> instr, args |-> <<dst, src, len>>,
                           params |-> <<"data_idx">>]
    /\ fd_ctors' = << >>
    /\ fd_op' = <<"memory", "init">>
    /\ UNCHANGED not_fold_vars

visit_memory_init ==
    /\ fd_op[1] = "none"
    /\ \E d \in BulkProviders, m \in BulkProviders, l \in BulkProviders :
         LET dst == Provider_Const16_new(d)
             src == Provider_Const16_new(m)
             len == Provider_Const16_new(l)
             instr == CASE dst.tag = "Register" /\ src.tag = "Register" /\ len.tag = "Register" ->
                           "memory_init"
                    [] dst.tag = "Register" /\ src.tag = "Register" /\ len.tag = "Const" ->
                           "memory_init_exact"
                    [] dst.tag = "Register" /\ src.tag = "Const" /\ len.tag = "Register" ->
                           "memory_init_from"
                    [] dst.tag = "Register" /\ src.tag = "Const" /\ len.tag = "Const" ->
                           "memory_init_from_exact"
                    [] dst.tag = "Const" /\ src.tag = "Register" /\ len.tag = "Register" ->
                           "memory_init_to"
                    [] dst.tag = "Const" /\ src.tag = "Register" /\ len.tag = "Const" ->
                           "memory_init_to_exact"
                    [] dst.tag = "Const" /\ src.tag = "Const" /\ len.tag = "Register" ->
                           "memory_init_from_to"
                    [] dst.tag = "Const" /\ src.tag = "Const" /\ len.tag = "Const" ->
                           "memory_init_from_to_exact"
         IN  /\ fd_in' = <<d, m, l>>
             /\ fd_out' = [kind |-> "instr", provider |-> NoProvider,
                           name |-> instr, args |-> <<dst, src, len>>,
                           params |-> <<"data_idx">>]
    /\ fd_ctors' = << >>
    /\ fd_op' = <<"memory", "init">>
    /\ UNCHANGED not_fold_vars

visit_memory_copy ==
    /\ fd_op[1] = "none"
    /\ \E d \in BulkProviders, m \in BulkProviders, l \in BulkProviders :
         LET dst == Provider_Const16_new(d)
             src == Provider_Const16_new(m)
             len == Provider_Const16_new(l)
             instr == CASE dst.tag = "Register" /\ src.tag = "Register" /\ len.tag = "Register" ->
                           "memory_copy"
                    [] dst.tag = "Register" /\ src.tag = "Register" /\ len.tag = "Const" ->
                           "memory_copy_exact"
                    [] dst.tag = "Register" /\ src.tag = "Const" /\ len.tag = "Register" ->
                           "memory_copy_from"
                    [] dst.tag = "Register" /\ src.tag = "Const" /\ len.tag = "Const" ->
                           "memory_copy_from_exact"
                    [] dst.tag = "Const" /\ src.tag = "Register" /\ len.tag = "Register" ->
                           "memory_copy_to"
                    [] dst.tag = "Const" /\ src.tag = "Register" /\ len.tag = "Const" ->
                           "memory_copy_to_exact"
                    [] dst.tag = "Const" /\ src.tag = "Const" /\ len.tag = "Register" ->
                           "memory_copy_from_to"
                    [] dst.tag = "Const" /\ src.tag = "Const" /\ len.tag = "Const" ->
                           "memory_copy_from_to_exact"
         IN  /\ fd_in' = <<d, m, l>>
             /\ fd_out' = [kind |-> "instr", provider |-> NoProvider,
                           name |-> instr, args |-> <<dst, src, len>>,
                           params |-> << >>]
    /\ fd_ctors' = << >>
    /\ fd_op' = <<"memory", "copy">>
    /\ UNCHANGED not_fold_vars

visit_memory_fill ==
    /\ fd_op[1] = "none"
    /\ \E d \in BulkProviders, m \in BulkProviders, l \in BulkProviders :
         LET dst == Provider_Const16_new(d)
             value == Provider_u8_new(m)
             len == Provider_Const16_new(l)
             instr == CASE dst.tag = "Register" /\ value.tag = "Register" /\ len.tag = "Register" ->
                           "memory_fill"
                    [] dst.tag = "Register" /\ value.tag = "Register" /\ len.tag = "Const" ->
                           "memory_fill_exact"
                    [] dst.tag = "Register" /\ value.tag = "Const" /\ len.tag = "Register" ->
                           "memory_fill_imm"
                    [] dst.tag = "Register" /\ value.tag = "Const" /\ len.tag = "Const" ->
                           "memory_fill_imm_exact"
                    [] dst.tag = "Const" /\ value.tag = "Register" /\ len.tag = "Register" ->
                           "memory_fill_at"
                    [] dst.tag = "Const" /\ value.tag = "Register" /\ len.tag = "Const" ->
                           "memory_fill_at_exact"
                    [] dst.tag = "Const" /\ value.tag = "Const" /\ len.tag = "Register" ->
                           "memory_fill_at_imm"
                    [] dst.tag = "Const" /\ value.tag = "Const" /\ len.tag = "Const" ->
                           "memory_fill_at_imm_exact"
         IN  /\ fd_in' = <<d, m, l>>
             /\ fd_out' = [kind |-> "instr", provider |-> NoProvider,
                           name |-> instr, args |-> <<dst, value, len>>,
                           params |-> << >>]
    /\ fd_ctors' = << >>
    /\ fd_op' = <<"memory", "fill">>
    /\ UNCHANGED not_fold_vars

visit_table_init ==
    /\ fd_op[1] = "none"
    /\ \E d \in BulkProviders, m \in BulkProviders, l \in BulkProviders :
         LET dst == Provider_Const16_new(d)
             src == Provider_Const16_new(m)
             len == Provider_Const16_new(l)
             instr == CASE dst.tag = "Register" /\ src.tag = "Register" /\ len.tag = "Register" ->
                           "table_init"
                    [] dst.tag = "Register" /\ src.tag = "Register" /\ len.tag = "Const" ->
                           "table_init_exact"
                    [] dst.tag = "Register" /\ src.tag = "Const" /\ len.tag = "Register" ->
                           "table_init_from"
                    [] dst.tag = "Register" /\ src.tag = "Const" /\ len.tag = "Const" ->
                           "table_init_from_exact"
                    [] dst.tag = "Const" /\ src.tag = "Register" /\ len.tag = "Register" ->
                           "table_init_to"
                    [] dst.tag = "Const" /\ src.tag = "Register" /\ len.tag = "Const" ->
                           "table_init_to_exact"
                    [] dst.tag = "Const" /\ src.tag = "Const" /\ len.tag = "Register" ->
                           "table_init_from_to"
                    [] dst.tag = "Const" /\ src.tag = "Const" /\ len.tag = "Const" ->
                           "table_init_from_to_exact"
         IN  /\ fd_in' = <<d, m, l>>
             /\ fd_out' = [kind |-> "instr", provider |-> NoProvider,
                           name |-> instr, args |-> <<dst, src, len>>,
                           params |-> <<"table_idx", "elem_idx">>]
    /\ fd_ctors' = << >>
    /\ fd_op' = <<"table", "init">>
    /\ UNCHANGED not_fold_vars

visit_table_copy ==
    /\ fd_op[1] = "none"
    /\ \E d \in BulkProviders, m \in BulkProviders, l \in BulkProviders :
         LET dst == Provider_Const16_new(d)
             src == Provider_Const16_new(m)
             len == Provider_Const16_new(l)
             instr == CASE dst.tag = "Register" /\ src.tag = "Register" /\ len.tag = "Register" ->
                           "table_copy"
                    [] dst.tag = "Register" /\ src.tag = "Register" /\ len.tag = "Const" ->
                           "table_copy_exact"
                    [] dst.tag = "Register" /\ src.tag = "Const" /\ len.tag = "Register" ->
                           "table_copy_from"
                    [] dst.tag = "Register" /\ src.tag = "Const" /\ len.tag = "Const" ->
                           "table_copy_from_exact"
                    [] dst.tag = "Const" /\ src.tag = "Register" /\ len.tag = "Register" ->
                           "table_copy_to"
                    [] dst.tag = "Const" /\ src.tag = "Register" /\ len.tag = "Const" ->
                           "table_copy_to_exact"
                    [] dst.tag = "Const" /\ src.tag = "Const" /\ len.tag = "Register" ->
                           "table_copy_from_to"
                    [] dst.tag = "Const" /\ src.tag = "Const" /\ len.tag = "Const" ->
                           "table_copy_from_to_exact"
         IN  /\ fd_in' = <<d, m, l>>
             /\ fd_out' = [kind |-> "instr", provider |-> NoProvider,
                           name |-> instr, args |-> <<dst, src, len>>,
                           params |-> <<"table_idx", "table_idx">>]
    /\ fd_ctors' = << >>
    /\ fd_op' = <<"table", "copy">>
    /\ UNCHANGED not_fold_vars

visit_table_fill ==
    /\ fd_op[1] = "none"
    /\ \E d \in BulkProviders, m \in BulkProviders, l \in BulkProviders :
         LET dst == Provider_Const16_new(d)
             len == Provider_Const16_new(l)
             value == IF m.tag = "Register" THEN m ELSE Register(alloc_const(m.n))
             instr == CASE dst.tag = "Register" /\ len.tag = "Register" ->
                           "table_fill"
                    [] dst.tag = "Register" /\ len.tag = "Const" ->
                           "table_fill_exact"
                    [] dst.tag = "Const" /\ len.tag = "Register" ->
                           "table_fill_at"
                    [] dst.tag = "Const" /\ len.tag = "Const" ->
                           "table_fill_at_exact"
         IN  /\ fd_in' = <<d, m, l>>
             /\ fd_out' = [kind |-> "instr", provider |-> NoProvider,
                           name |-> instr, args |-> <<dst, len, value>>,
                           params |-> <<"table_idx">>]
    /\ fd_ctors' = << >>
    /\ fd_op' = <<"table", "fill">>
    /\ UNCHANGED not_fold_vars

FoldInit ==
    /\ fd_op = <<"none", "none">>
    /\ fd_in = << >>
    /\ fd_out = Emitted
    /\ fd_ctors = << >>

FoldNext ==
    \/ visit_f32_eq
    \/ visit_f32_ne
    \/ visit_f32_lt
    \/ visit_f32_gt
    \/ visit_f32_le
    \/ visit_f32_ge
    \/ visit_f64_eq
    \/ visit_f64_ne
    \/ visit_f64_lt
    \/ visit_f64_gt
    \/ visit_f64_le
    \/ visit_f64_ge
    \/ visit_i32_div_s
    \/ visit_i32_div_u
    \/ visit_i32_rem_s
    \/ visit_i32_rem_u
    \/ visit_i64_div_s
    \/ visit_i64_div_u
    \/ visit_i64_rem_s
    \/ visit_i64_rem_u
    \/ visit_i32_eq
    \/ visit_i32_ne
    \/ visit_i32_lt_s
    \/ visit_i32_lt_u
    \/ visit_i32_gt_s
    \/ visit_i32_gt_u
    \/ visit_i32_le_s
    \/ visit_i32_le_u
    \/ visit_i32_ge_s
    \/ visit_i32_ge_u
    \/ visit_i32_add
    \/ visit_i32_sub
    \/ visit_i32_mul
    \/ visit_i32_and
    \/ visit_i32_or
    \/ visit_i32_xor
    \/ visit_i32_shl
    \/ visit_i32_shr_s
    \/ visit_i32_shr_u
    \/ visit_i32_rotl
    \/ visit_i32_rotr
    \/ visit_i64_eq
    \/ visit_i64_ne
    \/ visit_i64_lt_s
    \/ visit_i64_lt_u
    \/ visit_i64_gt_s
    \/ visit_i64_gt_u
    \/ visit_i64_le_s
    \/ visit_i64_le_u
    \/ visit_i64_ge_s
    \/ visit_i64_ge_u
    \/ visit_i64_add
    \/ visit_i64_sub
    \/ visit_i64_mul
    \/ visit_i64_and
    \/ visit_i64_or
    \/ visit_i64_xor
    \/ visit_i64_shl
    \/ visit_i64_shr_s
    \/ visit_i64_shr_u
    \/ visit_i64_rotl
    \/ visit_i64_rotr
    \/ visit_memory_init
    \/ visit_memory_copy
    \/ visit_memory_fill
    \/ visit_table_init
    \/ visit_table_copy
    \/ visit_table_fill

vars == <<exec_vars, copy_vars, trans_vars, fold_vars>>

Init == ExecInit /\ CopyInit /\ TransInit /\ FoldInit

Spec == Init /\ [][TransNext]_vars

SpecExec == Init /\ [][ExecNext]_vars

SpecCopy == Init /\ [][CopyNext]_vars

SpecFold == Init /\ [][FoldNext]_vars

(***************************************************************************)
(* Properties of the executor.                                             *)
(***************************************************************************)

\* C1: once a frame (root or callee, at any depth) has signalled a trap,
\* execute_func has ended with Err of that very trap, the frame stack and
\* the push and pop counts are those at the moment of the trap (no caller
\* was resumed, nothing pushed or popped), and return_result has not run.
C1_TrapAbortsExecution ==
    signalled /= "none" =>
        /\ ex_pc = "done"
        /\ outcome = Err(signalled)
        /\ trap_frames = <<frames, n_push, n_pop>>
        /\ ~rr_ran

\* A trap signalled by a callee two calls deep.
C1_Witness ==
    /\ signalled /= "none"
    /\ Len(frames) = 3
    /\ outcome.kind = "Err"

\* C2: the frame stack grows by one per Wasm call and shrinks by one per
\* return, the frame that runs is the top frame, and Ok is produced only
\* after the root frame was popped, with the root's returned values: then
\* the pushes and the pops are equal in number and no frame is left.
C2_FramesBalanced ==
    /\ Len(frames) = n_push - n_pop
    /\ ex_pc = "execute_frame" => (frame = Len(frames) /\ frame >= 1)
    /\ (ex_pc = "return_result" \/ outcome.kind = "Ok") =>
          /\ frames = << >>
          /\ n_push = n_pop
          /\ n_push >= 1
          /\ returned = len_result_types(func)

\* Ok after two nested calls have returned.
C2_Witness ==
    /\ outcome.kind = "Ok"
    /\ n_push >= 3
    /\ n_pop = n_push

\* C3: a well-typed call of execute_func, of a Wasm or of a host function,
\* ends with Ok or with Err, never in a panic.
C3_OkOrErr ==
    (ex_pc = "done" /\ results = len_result_types(func)) =>
        outcome.kind \in {"Ok", "Err"}

\* C4: the step in which a Wasm frame calls a host function either ends
\* execute_frame with Err (the host's error as a trap) or leaves the same
\* caller frame running, with no frame pushed or popped.
C4_HostCallBoundary ==
    [][(host_called' /\ ~host_called) =>
          \/ outcome'.kind = "Err"
          \/ /\ ex_pc' = "execute_frame"
             /\ outcome'.kind = "None"
             /\ frames' = frames
             /\ frame' = frame]_vars

\* C5: when return_result has been reached with a results buffer whose
\* length is not the number of results of the function, execute_func
\* returns an error.
C5_ResultLenError ==
    (rr_ran /\ results /= len_result_types(func)) => outcome.kind = "Err"

(***************************************************************************)
(* Properties of the span copy.                                            *)
(***************************************************************************)

\* C6: has_overlapping_copies over [d, d+n) and [s, s+n) is true exactly
\* when s < d < s + n (so never for n <= 1, d = s, d < s or d >= s + n),
\* and the assertions of the test of the predicate hold.
C6_OverlapIffDstInsideSrc ==
    /\ has_overlapping_copy_spans_works
    /\ cp_pc /= "start" =>
          /\ cp_overlap <=> (cp_src < cp_dst /\ cp_dst < cp_src + cp_len)
          /\ (cp_len <= 1 \/ cp_dst <= cp_src \/ cp_dst >= cp_src + cp_len)
                => ~cp_overlap

\* The predicate has answered true for the spans [2, 5) and [0, 3).
C6_Witness ==
    /\ cp_pc /= "start"
    /\ cp_overlap
    /\ cp_dst = 2 /\ cp_src = 0 /\ cp_len = 3

\* C7: for len > 0 and src /= dst, once the emitted copies have run the
\* destination registers hold what the source registers held before.
C7_CopyPreservesSource ==
    (cp_pc = "done" /\ cp_len > 0 /\ cp_src /= cp_dst) =>
        \A i \in 0 .. cp_len - 1 : regs[cp_dst + i] = regs_before[cp_src + i]

\* A finished copy between overlapping spans, destination above source.
C7_Witness ==
    /\ cp_pc = "done"
    /\ cp_len = 3 /\ cp_src = 1 /\ cp_dst = 2
    /\ regs[2] = 1 /\ regs[3] = 2 /\ regs[4] = 3

C9_ReachableClearedUntilElseOrEnd ==
    [][/\ (/\ reachable
           /\ n_ops' = n_ops + 1
           /\ last_op'.op \in {"unreachable", "br", "br_table", "return",
                                "return_call", "return_call_indirect"})
          => ~reachable'
       /\ (~reachable /\ reachable') => last_op'.op \in {"else", "end"}]_vars

\* A br_table with a register index has just been translated with
\* trampolines: instructions follow the arms of its BranchTable.
C9_Witness ==
    /\ last_op.op = "br_table"
    /\ was_reachable
    /\ ~reachable
    /\ \E i \in DOMAIN instrs :
          /\ instrs[i].op = "BranchTable"
          /\ Len(instrs) > i + instrs[i].n

C11_BrTableConstIndexFolds ==
    (/\ last_op.op = "br_table"
     /\ prev.reachable
     /\ (last_op.ts = << >> \/ peek(prev).tag = "Const"))
    => LET i == peek(prev).n
           n == Len(last_op.ts)
           target == IF n > 0 /\ peek(prev).tag = "Const" /\ i >= 0 /\ i < n
                        THEN last_op.ts[i + 1] ELSE last_op.a
       IN  /\ TS = visit_br(pop(prev), target)
           /\ \A k \in Len(prev.instrs) + 1 .. Len(instrs) :
                 instrs[k].op /= "BranchTable"

\* A br_table over one target, with the constant index -1, has branched
\* to its default target, which is not the table's target.
C11_Witness ==
    /\ last_op.op = "br_table"
    /\ prev.reachable
    /\ Len(last_op.ts) = 1
    /\ last_op.ts[1] /= last_op.a
    /\ peek(prev) = Const(-1)
    /\ Len(instrs) > Len(prev.instrs)

\* C12: when an end is read in reachable code, the height of the value
\* stack is the height recorded in the frame it closes plus the number of
\* results of the frame; the height block, loop and if record is the height
\* of the stack at entry (for if, without the condition) minus the number
\* of block parameters.
C12_HeightAtEnd ==
    /\ (last_op.op = "end" /\ prev.reachable)
       => /\ last_frame(prev).kind /= "Unreachable"
          /\ Len(prev.stack)
               = last_frame(prev).height + last_frame(prev).results
    /\ (last_op.op \in {"block", "loop", "if"} /\ prev.reachable)
       => last_frame(TS).height
            = Len(prev.stack) - (IF last_op.op = "if" THEN 1 ELSE 0) - last_op.a

\* The end of a block with one parameter and one result has been read in
\* reachable code.
C12_Witness ==
    /\ last_op.op = "end"
    /\ prev.reachable
    /\ Len(prev.control) >= 2
    /\ last_frame(prev).kind = "Block"
    /\ last_frame(prev).params = 1
    /\ Len(prev.stack) = last_frame(prev).height + 1

\* C13: every branch emitted names a label of the encoder, and a label
\* that is not pinned is the end label of a block or if frame still on the
\* control stack, or the else label of an if frame whose else has not been
\* read: so loop headers, the skip label of br_if, the trampoline labels of
\* br_table and, once else is read, else labels are pinned, and no label is
\* left unpinned after the end of its frame.  The skip label of br_if is
\* pinned right after the branch it skips.
C13_LabelsPinned ==
    /\ \A i \in DOMAIN instrs :
          instrs[i].op \in {"Branch", "BranchEqz", "BranchNez"}
             => instrs[i].label \in DOMAIN labels
    /\ \A l \in DOMAIN labels :
          labels[l] = 0
             => \E k \in DOMAIN control_stack :
                   \/ /\ control_stack[k].kind \in {"Block", "If"}
                      /\ control_stack[k].label = l
                   \/ /\ control_stack[k].kind = "If"
                      /\ control_stack[k].else_label = l
                      /\ ~control_stack[k].visited_else
    /\ (/\ last_op.op = "br_if"
        /\ prev.reachable
        /\ Len(labels) > Len(prev.labels))
       => /\ labels[Len(labels)] = Len(instrs) + 1
          /\ instrs[Len(instrs)].op = "Branch"

\* A br_if with a register condition has emitted copies and a branch that
\* a BranchEqz to a new label skips.
C13_Witness ==
    /\ last_op.op = "br_if"
    /\ prev.reachable
    /\ Len(labels) = Len(prev.labels) + 1
    /\ \E i \in DOMAIN instrs :
          /\ i > Len(prev.instrs)
          /\ instrs[i].op = "BranchEqz"
          /\ instrs[i].label = Len(labels)

\* C14 as claimed: call and call_indirect allocate the result span while
\* the arguments are still on the value stack, so the span starts at the
\* first dynamic register above the arguments.
C14_ResultsAllocatedBeforeArgsPopped ==
    (last_op.op \in {"call", "call_indirect"} /\ prev.reachable)
    => LET before == IF last_op.op = "call" THEN prev ELSE pop(prev)
       IN  instrs[Len(prev.instrs) + 1].result = next_dynamic(before.stack)

\* C14 as amended: call and call_indirect pop the arguments (call_indirect
\* the index first) and then allocate the result span, which starts at the
\* first dynamic register the remaining stack does not use; the arguments
\* follow the call instruction as a register list.
C14_ResultsAllocatedAfterArgsPopped ==
    (last_op.op \in {"call", "call_indirect"} /\ prev.reachable)
    => LET ft == IF last_op.op = "call" THEN func_type_of(last_op.a)
                                        ELSE func_type_at(last_op.a)
           before == IF last_op.op = "call" THEN prev ELSE pop(prev)
           rest == pop_n(before, ft.params)
           head == next_dynamic(rest.stack)
           at == Len(prev.instrs) + 1
           first_arg == at + (IF last_op.op = "call" THEN 1 ELSE 2)
       IN  /\ instrs[at].result = head
           /\ stack = rest.stack
                        \o [i \in 1 .. ft.results |-> Register(head + i - 1)]
           /\ SubSeq(instrs, first_arg, Len(instrs))
                = [i \in 1 .. ft.params |->
                      Instr("RegisterList", -1, peek_n(before, ft.params)[i], 0, 0)]

\* A call has been translated whose argument was a dynamic register: the
\* result span reuses that register.
C14_Witness ==
    /\ last_op.op = "call"
    /\ prev.reachable
    /\ func_type_of(last_op.a).params = 1
    /\ is_dynamic(peek(prev))
    /\ instrs[Len(prev.instrs) + 1].result = peek(prev).n

(***************************************************************************)
(* Properties of the operand folds.                                        *)
(***************************************************************************)

\* C15: every float comparison the translator folds with a register operand
\* is folded to the constant that Wasm defines for the comparison, whatever
\* value the register holds at run time, NaN included.
C15_FloatCompareFoldsAreSound ==
    (/\ fd_op[1] \in {"f32", "f64"}
     /\ fd_out.kind = "folded"
     /\ \E i \in 1 .. 2 : fd_in[i].tag = "Register")
    => \A env \in [FoldRegs -> FloatVals] :
          LET value(p) == IF p.tag = "Register" THEN env[p.n] ELSE p.n
          IN  /\ fd_out.provider.tag = "Const"
              /\ fd_out.provider.n
                   = TypedValue_fcompare(fd_op[2], value(fd_in[1]), value(fd_in[2]))

\* C16: with a register dividend, a division or remainder is folded exactly
\* when the divisor is the constant 1, or the constant -1 for rem_s; the
\* division folds to the dividend's register and the remainder to 0; for
\* these divisors the operation traps for no dividend and the folded result
\* is the Wasm result for every dividend, MIN included.  A register divisor
\* (the dividend's register too), the constant 0 and div_s by -1 are not
\* folded.
C16_DivRemFoldsKeepTraps ==
    (/\ fd_op[1] \in {"i32", "i64"}
     /\ fd_op[2] \in {"div_s", "div_u", "rem_s", "rem_u"}
     /\ fd_in[1].tag = "Register")
    => LET op == fd_op[2]
           c == fd_in[2].n
       IN  /\ fd_in[2].tag = "Register" => fd_out.kind = "instr"
           /\ fd_in[2].tag = "Const" =>
                /\ fd_out.kind \in {"folded", "instr"}
                /\ fd_out.kind = "folded" <=> (c = 1 \/ (op = "rem_s" /\ c = -1))
                /\ fd_out.kind = "folded" =>
                     /\ fd_out.provider
                          = IF op \in {"div_s", "div_u"} THEN fd_in[1] ELSE Const(0)
                     /\ \A x \in IntVals :
                           /\ ~TypedValue_divrem(op, x, c).trap
                           /\ TypedValue_divrem(op, x, c).v
                                = IF fd_out.provider.tag = "Register"
                                     THEN x ELSE fd_out.provider.n

\* rem_s of a register by the constant -1 has been folded.
C16_Witness ==
    /\ fd_op[2] = "rem_s"
    /\ fd_in = <<Register(0), Const(-1)>>
    /\ fd_out = Folded(Const(0))

\* C17 as claimed: each of the six bulk operations emits the variant named
\* after which of its three operands are immediate-encodable constants
\* (dst, src or value, len), and the emitted instruction holds exactly
\* those operands as immediates.
C17_EightVariantsEach ==
    (fd_op[1] \in {"memory", "table"})
    => LET fill == fd_op[2] = "fill"
           imm(i) == /\ fd_in[i].tag = "Const"
                     /\ (fill /\ i = 2) \/ fd_in[i].n < 2 ^ 16
           base == fd_op[1] \o "_" \o fd_op[2]
           variant == IF fill
                         THEN base \o (IF imm(1) THEN "_at" ELSE "")
                                   \o (IF imm(2) THEN "_imm" ELSE "")
                                   \o (IF imm(3) THEN "_exact" ELSE "")
                         ELSE base \o (IF imm(2) THEN "_from" ELSE "")
                                   \o (IF imm(1) THEN "_to" ELSE "")
                                   \o (IF imm(3) THEN "_exact" ELSE "")
       IN  /\ fd_out.name = variant
           /\ \E dst \in 1 .. 3, mid \in 1 .. 3, len \in 1 .. 3 :
                /\ {dst, mid, len} = 1 .. 3
                /\ (fd_out.args[dst].tag = "Const") = imm(1)
                /\ (fd_out.args[mid].tag = "Const") = imm(2)
                /\ (fd_out.args[len].tag = "Const") = imm(3)

\* C17 as amended: memory.init, memory.copy, memory.fill, table.init and
\* table.copy emit the variant named after which of their three operands
\* are immediate-encodable constants; table.fill emits one of four
\* variants, named after which of dst and len are such constants, and its
\* value operand is always a register, a constant value being moved to a
\* register of the constant pool.
C17_EightVariantsButTableFill ==
    (fd_op[1] \in {"memory", "table"})
    => LET fill == fd_op[2] = "fill"
           table_fill == fd_op = <<"table", "fill">>
           imm(i) == /\ fd_in[i].tag = "Const"
                     /\ ~(table_fill /\ i = 2)
                     /\ (fill /\ i = 2) \/ fd_in[i].n < 2 ^ 16
           base == fd_op[1] \o "_" \o fd_op[2]
           variant == IF fill
                         THEN base \o (IF imm(1) THEN "_at" ELSE "")
                                   \o (IF imm(2) THEN "_imm" ELSE "")
                                   \o (IF imm(3) THEN "_exact" ELSE "")
                         ELSE base \o (IF imm(2) THEN "_from" ELSE "")
                                   \o (IF imm(1) THEN "_to" ELSE "")
                                   \o (IF imm(3) THEN "_exact" ELSE "")
           at(i) == IF table_fill THEN <<1, 3, 2>>[i] ELSE i
       IN  /\ fd_out.name = variant
           /\ \A i \in 1 .. 3 :
                /\ (fd_out.args[at(i)].tag = "Const") = imm(i)
                /\ imm(i) \/ fd_in[i].tag = "Register" => fd_out.args[at(i)].n
                     = IF fill /\ i = 2 THEN fd_in[i].n % 2 ^ 8 ELSE fd_in[i].n
                /\ fd_out.args[at(i)].tag = "Register" /\ fd_in[i].tag = "Const"
                     => fd_out.args[at(i)].n < 0

\* table.fill has been translated with a constant value and constant dst
\* and len.
C17_Witness ==
    /\ fd_op = <<"table", "fill">>
    /\ fd_in = <<Const(0), Const(0), Const(0)>>
    /\ fd_out.name = "table_fill_at_exact"
    /\ fd_out.args[3].tag = "Register"

(***************************************************************************)
(* Properties of the translator, continued.                                *)
(***************************************************************************)

\* C18: in reachable code local.tee x leaves the provider of local x on top
\* of the value stack, and a local.get x that follows emits no instruction
\* and pushes that same provider again, changing nothing else: the code of
\* `local.tee x; local.get x` is the code of `local.tee x`, and both stack
\* entries name local x.
C18_TeeThenGetIsTee ==
    /\ (last_op.op = "local.tee" /\ prev.reachable)
       => /\ peek(TS) = Register(last_op.a)
          /\ visit_local_get(TS, last_op.a)
               = [TS EXCEPT !.stack = Append(stack, peek(TS))]
    /\ (last_op.op = "local.get" /\ prev.reachable)
       => TS = [prev EXCEPT !.stack = Append(prev.stack, Register(last_op.a))]

\* `i32.const; local.tee 0; local.get 0` has been translated: the tee
\* emitted the copy to local 0 and the get left the code as it was.
C18_Witness ==
    /\ last_op.op = "local.get"
    /\ n_ops = 3
    /\ prev.reachable
    /\ prev.stack = <<Register(last_op.a)>>
    /\ Len(prev.instrs) > 0
    /\ prev.instrs[Len(prev.instrs)].op = "Copy"
    /\ prev.instrs[Len(prev.instrs)].result = last_op.a
    /\ instrs = prev.instrs
    /\ stack = <<Register(last_op.a), Register(last_op.a)>>

\* C20: a br_table with a register index and n >= 1 table targets emits
\* one branch_table header whose count is n + 1, followed at once by n + 1
\* one-slot arms, a branch or a return each, the arm of the k-th target in
\* k-th place and the arm of the default target last.  If the targets share
\* their branch parameters the arms go to the targets themselves and end
\* the code emitted; otherwise the header comes first, every arm branches
\* to a trampoline of its target, and every trampoline lies behind the
\* last arm.
C20_BranchTableArms ==
    (/\ last_op.op = "br_table"
     /\ prev.reachable
     /\ peek(prev).tag = "Register"
     /\ Len(last_op.ts) >= 1)
    => LET n == Len(last_op.ts)
           all == Append(last_op.ts, last_op.a)
           new == Len(prev.instrs) + 1 .. Len(instrs)
           headers == {i \in new : instrs[i].op = "BranchTable"}
           h == CHOOSE i \in headers : TRUE
           returns == {"Return", "ReturnReg", "ReturnSpan", "ReturnImm"}
           trampolines == Len(labels) > Len(prev.labels)
           target_frame(k) == prev.control[target_index(prev, all[k])]
           goes_to(i, k) ==
               IF is_return_target(prev, all[k])
                  THEN instrs[i].op \in returns
                  ELSE /\ instrs[i].op = "Branch"
                       /\ instrs[i].label = branch_destination(target_frame(k))
           end_of(p) == CHOOSE q \in p .. Len(instrs) :
                           /\ instrs[q].op \in returns \cup {"Branch"}
                           /\ \A r \in p .. q - 1 :
                                 instrs[r].op \notin returns \cup {"Branch"}
       IN  /\ Cardinality(headers) = 1
           /\ instrs[h].n = n + 1
           /\ instrs[h].value = peek(prev)
           /\ h + n + 1 <= Len(instrs)
           /\ \A k \in 1 .. n + 1 : instrs[h + k].op \in returns \cup {"Branch"}
           /\ ~trampolines =>
                /\ h + n + 1 = Len(instrs)
                /\ \A k \in 1 .. n + 1 : goes_to(h + k, k)
           /\ trampolines =>
                /\ h = Len(prev.instrs) + 1
                /\ \A k \in 1 .. n + 1 :
                      /\ instrs[h + k].op = "Branch"
                      /\ instrs[h + k].label > Len(prev.labels)
                      /\ labels[instrs[h + k].label] > h + n + 1
                      /\ goes_to(end_of(labels[instrs[h + k].label]), k)
                      /\ \A j \in 1 .. n + 1 :
                            (instrs[h + j].label = instrs[h + k].label)
                               = (all[j] = all[k])
           /\ ~reachable

\* A br_table with a register index and one table target has been
\* translated with trampolines.
C20_Witness ==
    /\ last_op.op = "br_table"
    /\ prev.reachable
    /\ peek(prev).tag = "Register"
    /\ Len(last_op.ts) = 1
    /\ last_op.ts[1] /= last_op.a
    /\ Len(labels) = Len(prev.labels) + 2
    /\ instrs[Len(prev.instrs) + 1].op = "BranchTable"
    /\ instrs[Len(prev.instrs) + 1].n = 2

\* C21 as claimed: a br_if with a register condition keeps the code
\* reachable and pops only the condition; it emits a single branch_nez to
\* the target if the target has no branch parameters or the top of the
\* stack already is the target's branch-parameter span, and otherwise a
\* branch_eqz to a fresh skip label, the copies to the span, a branch to
\* the target, and pins the skip label behind that branch.
C21_BrIfRegisterEncodings ==
    (last_op.op = "br_if" /\ prev.reachable /\ peek(prev).tag = "Register")
    => LET t1 == pop(prev)
           f == prev.control[target_index(prev, last_op.a)]
           bp == branch_params(f)
           new == SubSeq(instrs, Len(prev.instrs) + 1, Len(instrs))
           fused == bp.len = 0 \/ peek_n(t1, bp.len) = span_registers(bp)
           skip_label == Len(prev.labels) + 1
       IN  /\ reachable
           /\ stack = t1.stack
           /\ (fused) =>
                /\ new = <<Instr("BranchNez", -1, peek(prev), branch_destination(f), 0)>>
                /\ Len(labels) = Len(prev.labels)
           /\ (~fused) =>
                /\ Len(new) >= 3
                /\ new[1] = Instr("BranchEqz", -1, peek(prev), skip_label, 0)
                /\ \A i \in 2 .. Len(new) - 1 :
                      /\ new[i].op = "Copy"
                      /\ new[i].result \in bp.head .. bp.head + bp.len - 1
                /\ new[Len(new)] = instr_branch(branch_destination(f))
                /\ Len(labels) = skip_label
                /\ labels[skip_label] = Len(instrs) + 1

\* C21 as amended: the above holds if the target is a control frame; if
\* the target is the function itself, the br_if emits a conditional return
\* of the function's results instead, with no branch, copy or label.
C21_BrIfRegisterEncodingsOfFrames ==
    (last_op.op = "br_if" /\ prev.reachable /\ peek(prev).tag = "Register")
    => LET t1 == pop(prev)
           f == prev.control[target_index(prev, last_op.a)]
           bp == branch_params(f)
           new == SubSeq(instrs, Len(prev.instrs) + 1, Len(instrs))
           fused == bp.len = 0 \/ peek_n(t1, bp.len) = span_registers(bp)
           skip_label == Len(prev.labels) + 1
       IN  /\ reachable
           /\ stack = t1.stack
           /\ is_return_target(prev, last_op.a) =>
                /\ new /= << >>
                /\ new[1].op \in {"ReturnNez", "ReturnNezReg", "ReturnNezImm"}
                /\ new[1].value = peek(prev)
                /\ \A i \in DOMAIN new : new[i].op \notin {"BranchNez", "BranchEqz", "Branch", "Copy"}
                /\ labels = prev.labels
           /\ (~is_return_target(prev, last_op.a) /\ fused) =>
                /\ new = <<Instr("BranchNez", -1, peek(prev), branch_destination(f), 0)>>
                /\ Len(labels) = Len(prev.labels)
           /\ (~is_return_target(prev, last_op.a) /\ ~fused) =>
                /\ Len(new) >= 3
                /\ new[1] = Instr("BranchEqz", -1, peek(prev), skip_label, 0)
                /\ \A i \in 2 .. Len(new) - 1 :
                      /\ new[i].op = "Copy"
                      /\ new[i].result \in bp.head .. bp.head + bp.len - 1
                /\ new[Len(new)] = instr_branch(branch_destination(f))
                /\ Len(labels) = skip_label
                /\ labels[skip_label] = Len(instrs) + 1

\* A br_if with a register condition has been translated with a skip
\* label and copies.
C21_Witness ==
    /\ last_op.op = "br_if"
    /\ prev.reachable
    /\ peek(prev).tag = "Register"
    /\ ~is_return_target(prev, last_op.a)
    /\ Len(labels) = Len(prev.labels) + 1
    /\ Len(instrs) >= Len(prev.instrs) + 3
    /\ instrs[Len(prev.instrs) + 2].op = "Copy"

\* C22: a reachable `if` with a constant condition emits nothing, creates
\* only the end label, leaves the else providers alone and takes the
\* ConsumeFuel of the parent frame; the frame is OnlyThen for a nonzero
\* condition and OnlyElse for zero, and while an OnlyElse frame has not seen
\* its `else` the code is unreachable.
C22_ConstIfElidesBranch ==
    /\ (last_op.op = "if" /\ prev.reachable /\ peek(prev).tag = "Const")
       => LET f == last_frame(TS)
          IN  /\ f.kind = "If"
              /\ instrs = prev.instrs
              /\ Len(labels) = Len(prev.labels) + 1
              /\ f.label = Len(labels)
              /\ f.else_label = 0
              /\ else_providers = prev.else_providers
              /\ f.consume_fuel = last_frame(prev).consume_fuel
              /\ f.reachability
                   = IF peek(prev).n /= 0 THEN "OnlyThen" ELSE "OnlyElse"
              /\ reachable = (peek(prev).n /= 0)
    /\ \A k \in DOMAIN control_stack :
          (/\ control_stack[k].kind = "If"
           /\ control_stack[k].reachability = "OnlyElse"
           /\ ~control_stack[k].visited_else)
          => ~reachable

\* An `if` with the constant condition 0 has been translated with fuel
\* metering enabled, and an operator of its then branch after it.
C22_Witness ==
    /\ fuel_metering
    /\ last_op.op /= "if"
    /\ Len(control_stack) >= 3
    /\ last_frame(TS).kind = "Unreachable"
    /\ control_stack[Len(control_stack) - 1].kind = "If"
    /\ control_stack[Len(control_stack) - 1].reachability = "OnlyElse"
    /\ control_stack[Len(control_stack) - 1].consume_fuel = 1
    /\ ~reachable

\* C23: at the `else` of an If frame the code becomes reachable exactly if
\* the else branch is reachable; the copies to the branch parameters and
\* the branch to the end label are emitted, and the branch counted, exactly
\* if the frame has an else label (the condition was no constant) and the
\* end of the then branch was reachable; and the reachability of the end
\* of the then branch is recorded only if the then branch was reachable.
C23_ElseOfIfFrame ==
    (last_op.op = "else" /\ last_frame(prev).kind = "If")
    => LET f0 == last_frame(prev)
           f == last_frame(TS)
           bp == branch_params(f0)
           jump == f0.else_label /= 0 /\ prev.reachable
           new == Len(prev.instrs) + 1 .. Len(instrs)
       IN  /\ reachable = is_else_reachable(f0)
           /\ reachable = (f0.else_label /= 0 \/ f0.reachability = "OnlyElse")
           /\ f.branches = f0.branches + (IF jump THEN 1 ELSE 0)
           /\ jump =>
                LET at == labels[f0.else_label] - 1
                IN  /\ at \in new
                    /\ instrs[at] = instr_branch(f0.label)
                    /\ \A i \in new :
                          /\ i < at => /\ instrs[i].op = "Copy"
                                       /\ instrs[i].result
                                            \in bp.head .. bp.head + bp.len - 1
                          /\ i > at => instrs[i].op = "ConsumeFuel"
           /\ ~jump =>
                \A i \in new : instrs[i].op \notin {"Copy", "Branch"}
           /\ f.visited_else
           /\ f.end_of_then
                = IF is_then_reachable(f0)
                     THEN (IF prev.reachable THEN "True" ELSE "False")
                     ELSE "None"

\* The `else` of an `if` with a register condition and a result has been
\* translated with the end of the then branch reachable: the result was
\* copied and the jump to the end emitted.
C23_Witness ==
    /\ last_op.op = "else"
    /\ last_frame(prev).kind = "If"
    /\ last_frame(prev).else_label /= 0
    /\ last_frame(prev).results = 1
    /\ prev.reachable
    /\ last_frame(TS).branches = 1
    /\ \E i \in Len(prev.instrs) + 1 .. Len(instrs) : instrs[i].op = "Copy"

C25_LoopHeaderAfterCopies ==
    /\ (last_op.op = "loop" /\ prev.reachable)
       => LET f == last_frame(TS)
              n == f.params
              values == peek_n(prev, n)
              head == next_dynamic(pop_n(prev, n).stack)
              at == labels[f.label]
              new == Len(prev.instrs) + 1 .. Len(instrs)
          IN  /\ f.kind = "Loop"
              /\ f.label = Len(prev.labels) + 1
              /\ Len(labels) = Len(prev.labels) + 1
              /\ f.bp = head
              /\ stack = pop_n(prev, n).stack
                           \o [i \in 1 .. n |-> Register(head + i - 1)]
              /\ Len(stack) = Len(prev.stack)
              /\ at = Len(instrs) + (IF fuel_metering THEN 0 ELSE 1)
              /\ \A i \in new : i < at =>
                    /\ instrs[i].op = "Copy"
                    /\ instrs[i].result \in head .. head + n - 1
              /\ \A i \in 1 .. n : values[i] /= Register(head + i - 1)
                    => \E j \in new :
                          j < at /\ instrs[j] = instr_copy(head + i - 1, values[i])
              /\ fuel_metering =>
                    /\ instrs[at] = make_consume_fuel_base
                    /\ f.consume_fuel = at
              /\ ~fuel_metering => f.consume_fuel = 0
    /\ \A k \in DOMAIN control_stack :
          control_stack[k].kind = "Loop"
          => /\ labels[control_stack[k].label] /= 0
             /\ fuel_metering =>
                  /\ instrs[labels[control_stack[k].label]].op = "ConsumeFuel"
                  /\ control_stack[k].consume_fuel = labels[control_stack[k].label]

\* A `loop` with a parameter has been translated with fuel metering: the
\* copy of the parameter is followed by the ConsumeFuel at the header.
C25_Witness ==
    /\ last_op.op = "loop"
    /\ prev.reachable
    /\ fuel_metering
    /\ last_frame(TS).params = 1
    /\ Len(instrs) = Len(prev.instrs) + 2
    /\ instrs[Len(instrs) - 1].op = "Copy"
    /\ instrs[Len(instrs)].op = "ConsumeFuel"
    /\ labels[last_frame(TS).label] = Len(instrs)

\* C26: in reachable code return_call and return_call_indirect leave the
\* stack at the height before minus the callee's parameters (and minus the
\* table index of the indirect form) and name no result register, while
\* call and call_indirect leave it at that height plus the callee's
\* results.
C26_ReturnCallAllocatesNoResults ==
    (/\ last_op.op \in {"call", "call_indirect", "return_call",
                        "return_call_indirect"}
     /\ prev.reachable)
    => LET direct == last_op.op \in {"call", "return_call"}
           tail == last_op.op \in {"return_call", "return_call_indirect"}
           ft == IF direct THEN func_type_of(last_op.a) ELSE func_type_at(last_op.a)
           base == Len(prev.stack) - ft.params - (IF direct THEN 0 ELSE 1)
           instr == instrs[Len(prev.instrs) + 1]
       IN  /\ tail => /\ Len(stack) = base
                      /\ stack = SubSeq(prev.stack, 1, base)
                      /\ instr.result = -1
                      /\ ~reachable
           /\ ~tail => /\ Len(stack) = base + ft.results
                       /\ SubSeq(stack, 1, base) = SubSeq(prev.stack, 1, base)
                       /\ reachable

\* A return_call of a function with a parameter and a result has been
\* translated.
C26_Witness ==
    /\ last_op.op = "return_call"
    /\ prev.reachable
    /\ func_type_of(last_op.a).params = 1
    /\ func_type_of(last_op.a).results = 1
    /\ Len(stack) = Len(prev.stack) - 1

\* C27: in unreachable code block, loop and if only push an Unreachable
\* frame that records their kind; `else` leaves an Unreachable frame of
\* kind If as it is, replaces the top frame if it is an If frame, and
\* panics on any other frame; `end` pops the top frame and leaves the
\* others alone.  So the control stack holds one frame per operator that
\* is open, of that operator's kind and block type, the function body
\* first.
C27_FramesMatchOpenOperators ==
    /\ (last_op.op \in {"block", "loop", "if"} /\ ~prev.reachable)
       => LET kind == CASE last_op.op = "block" -> "Block"
                        [] last_op.op = "loop" -> "Loop"
                        [] last_op.op = "if" -> "If"
          IN  TS = [prev EXCEPT !.control =
                       Append(@, UnreachableControlFrame(kind, last_op.a,
                                                         last_op.b))]
    /\ (/\ last_op.op = "else"
        /\ last_frame(prev).kind = "Unreachable"
        /\ last_frame(prev).ukind = "If")
       => TS = prev
    /\ (last_op.op = "else" /\ last_frame(prev).kind = "If")
       => /\ Len(control_stack) = Len(prev.control)
          /\ SubSeq(control_stack, 1, Len(control_stack) - 1)
               = SubSeq(prev.control, 1, Len(prev.control) - 1)
          /\ last_frame(TS).kind = "If"
          /\ ~panicked
    /\ last_op.op = "end"
       => control_stack = SubSeq(prev.control, 1, Len(prev.control) - 1)
    /\ (/\ control_stack /= << >>
        /\ last_frame(TS).kind /= "If"
        /\ ~(last_frame(TS).kind = "Unreachable" /\ last_frame(TS).ukind = "If"))
       => visit_else(TS).panicked
    /\ Len(control_stack) = Len(v_frames)
    /\ \A k \in DOMAIN control_stack :
          LET f == control_stack[k]
              opened == IF f.kind = "Unreachable" THEN f.ukind ELSE f.kind
              by == CASE v_frames[k].kind \in {"func", "block"} -> "Block"
                      [] v_frames[k].kind = "loop" -> "Loop"
                      [] v_frames[k].kind \in {"if", "else"} -> "If"
          IN  /\ opened = by
              /\ k > 1 => /\ f.params = v_frames[k].params
                          /\ f.results = v_frames[k].results

\* In unreachable code an `if` has been opened inside a block, and its
\* `else` has left the control stack as it was.
C27_Witness ==
    /\ last_op.op = "else"
    /\ ~prev.reachable
    /\ Len(control_stack) = 3
    /\ control_stack = prev.control
    /\ last_frame(TS).kind = "Unreachable"
    /\ last_frame(TS).ukind = "If"

\* The integer operators whose handlers fold with a custom optimisation
\* other than division and remainder.
IntFoldOps ==
    {"eq", "ne", "lt_s", "lt_u", "gt_s", "gt_u", "le_s", "le_u", "ge_s", "ge_u",
     "add", "sub", "mul", "and", "or", "xor", "shl", "shr_s", "shr_u", "rotl",
     "rotr"}

\* C28: every fold of an integer operator with a register operand gives the
\* two's-complement result of the operator for every value the register can
\* hold.  A register with itself folds to true for eq, le, ge, to false for
\* ne, lt, gt, to 0 for sub and xor and to the register for and, or; x+0,
\* x-0, x*1, x|0, x^0 and x&-1 fold to x, x*0 and x&0 to 0 and x|-1 to -1;
\* a comparison against MIN or MAX of its reading folds on either side;
\* -1 shifted right signed or rotated folds to -1; shl and shr_u with left
\* operand -1 are not folded.
C28_IntegerFoldsAreSound ==
    (/\ fd_op[1] \in {"i32", "i64"}
     /\ fd_op[2] \in IntFoldOps
     /\ \E i \in 1 .. 2 : fd_in[i].tag = "Register")
    => LET op == fd_op[2]
           lhs == fd_in[1]
           rhs == fd_in[2]
           same == lhs.tag = "Register" /\ rhs.tag = "Register" /\ lhs.n = rhs.n
           signed == op \in {"lt_s", "gt_s", "le_s", "ge_s"}
           MIN == IF signed THEN INT_MIN ELSE 0
           MAX == IF signed THEN INT_MAX ELSE -1
           rel == CASE op \in {"lt_s", "lt_u"} -> "lt"
                    [] op \in {"gt_s", "gt_u"} -> "gt"
                    [] op \in {"le_s", "le_u"} -> "le"
                    [] op \in {"ge_s", "ge_u"} -> "ge"
                    [] OTHER -> op
           right(c) == lhs.tag = "Register" /\ rhs = Const(c)
           left(c) == lhs = Const(c) /\ rhs.tag = "Register"
           either(c) == right(c) \/ left(c)
           reg == IF lhs.tag = "Register" THEN lhs ELSE rhs
       IN  /\ fd_out.kind \in {"folded", "instr"}
           /\ fd_out.kind = "folded" =>
                \A env \in [FoldRegs -> IntVals] :
                   LET value(p) == IF p.tag = "Register" THEN env[p.n] ELSE p.n
                   IN  value(fd_out.provider)
                         = TypedValue_int(op, value(lhs), value(rhs))
           /\ (same /\ rel \in {"eq", "le", "ge"}) => fd_out = Folded(Const(TRUE))
           /\ (same /\ rel \in {"ne", "lt", "gt"}) => fd_out = Folded(Const(FALSE))
           /\ (same /\ op \in {"sub", "xor"}) => fd_out = Folded(Const(0))
           /\ (same /\ op \in {"and", "or"}) => fd_out = Folded(lhs)
           /\ (op \in {"add", "or", "xor"} /\ either(0)) => fd_out = Folded(reg)
           /\ (op = "sub" /\ right(0)) => fd_out = Folded(reg)
           /\ (op = "mul" /\ either(1)) => fd_out = Folded(reg)
           /\ (op = "and" /\ either(-1)) => fd_out = Folded(reg)
           /\ (op \in {"mul", "and"} /\ either(0)) => fd_out = Folded(Const(0))
           /\ (op = "or" /\ either(-1)) => fd_out = Folded(Const(-1))
           /\ (rel = "lt" /\ (right(MIN) \/ left(MAX))) => fd_out = Folded(Const(FALSE))
           /\ (rel = "gt" /\ (right(MAX) \/ left(MIN))) => fd_out = Folded(Const(FALSE))
           /\ (rel = "le" /\ (right(MAX) \/ left(MIN))) => fd_out = Folded(Const(TRUE))
           /\ (rel = "ge" /\ (right(MIN) \/ left(MAX))) => fd_out = Folded(Const(TRUE))
           /\ (op \in {"shr_s", "rotl", "rotr"} /\ left(-1)) => fd_out = Folded(Const(-1))
           /\ (op \in {"shl", "shr_u"} /\ left(-1)) => fd_out = Emitted

\* An unsigned ge whose left operand is the constant of all ones, the
\* unsigned MAX, and whose right operand is a register has been folded to
\* true.
C28_Witness ==
    /\ fd_op = <<"i64", "ge_u">>
    /\ fd_in = <<Const(-1), Register(1)>>
    /\ fd_out = Folded(Const(TRUE))

\* What the operator a constructor encodes computes from the operands of
\* the handler's operator: a constructor under swap_ops! is applied with
\* the two operands exchanged.
denotes(ctor, a, b) ==
    LET eval(x, y) ==
            CASE ctor.ty \in {"f32", "f64"} -> TypedValue_fcompare(ctor.op, x, y)
              [] ctor.op \in {"div_s", "div_u", "rem_s", "rem_u"} ->
                    TypedValue_divrem(ctor.op, x, y)
              [] OTHER -> TypedValue_int(ctor.op, x, y)
    IN  IF ctor.swap THEN eval(b, a) ELSE eval(a, b)

\* C30: every constructor a comparison or arithmetic handler hands to its
\* generic helper, and the constant-folding function, is of the handler's
\* type and computes the handler's operator from the handler's operands;
\* the reversed form of an ordering comparison is the mirrored comparison
\* with exchanged operands, and the assign-immediate form of i64.add is an
\* i64.add.
C30_ConstructorsDenoteOwnOperator ==
    fd_op[1] \in {"i32", "i64", "f32", "f64"}
    => \A i \in 1 .. Len(fd_ctors) :
          /\ fd_ctors[i].ty = fd_op[1]
          /\ \A a, b \in IF fd_op[1] \in {"f32", "f64"} THEN FloatVals ELSE IntVals :
                denotes(fd_ctors[i], a, b)
                  = denotes(ConstEval(fd_op[1], fd_op[2]), a, b)

\* The instructions of a translator state that branch to the branch
\* destination of the frame f.
branches_to(t, f) ==
    {i \in 1 .. Len(t.instrs) :
        /\ t.instrs[i].op \in {"Branch", "BranchNez", "BranchEqz"}
        /\ t.instrs[i].label = branch_destination(f)}

\* C29: a control frame that an emitted branch targets, whether emitted by
\* br, br_if, a br_table arm or trampoline, or by else at the end of the
\* then branch, has a branch counter of at least one for as long as it is
\* open; so a frame whose counter is zero when its end is read is the
\* target of no emitted branch.
C29_BranchedFramesAreCounted ==
    /\ \A k \in 1 .. Len(control_stack) :
          LET f == control_stack[k]
          IN  (f.kind /= "Unreachable" /\ branches_to(TS, f) /= {})
                 => f.branches >= 1
    /\ (/\ last_op.op = "end"
        /\ last_frame(prev).kind /= "Unreachable"
        /\ ~is_branched_to(last_frame(prev)))
       => branches_to(prev, last_frame(prev)) = {}

\* A br_if on a register has just emitted the first branch to an open
\* block, whose counter went from zero to one.
C29_Witness ==
    /\ last_op.op = "br_if"
    /\ \E k \in 2 .. Len(control_stack) :
          /\ control_stack[k].kind = "Block"
          /\ prev.control[k].branches = 0
          /\ control_stack[k].branches = 1
          /\ branches_to(prev, control_stack[k]) = {}
          /\ branches_to(TS, control_stack[k]) /= {}

====
